---- MODULE Spec2Model ----
(***************************************************************************)
(* A model of the grip logging core: priorities and level policy, the      *)
(* composer (message) abstraction with its lazy producers, message         *)
(* conversion, the sender contract with its wrappers (annotating,          *)
(* intercepting) and backends, and the Grip logger with its reader/writer  *)
(* lock.                                                                   *)
(*                                                                         *)
(* Every record constructor lists its fields in the order in which the     *)
(* field names first occur in this module, which is the order TLC keeps    *)
(* records in: a record value is then never reordered after it is built.   *)
(***************************************************************************)
EXTENDS Integers, Sequences, FiniteSets, TLC

(***************************************************************************)
(* level.Priority.  The level package is not among the sources; the values *)
(* follow the order the specification gives (Emergency highest), with      *)
(* Trace, which logger.go and twitter.go use for the lowest level.         *)
(***************************************************************************)
Emergency == 100
Alert == 90
Critical == 80
Error == 70
Warning == 60
Notice == 50
Info == 40
Debug == 30
Trace == 20
Invalid == 0

ValidPriorities ==
    {Emergency, Alert, Critical, Error, Warning, Notice, Info, Debug, Trace}

Priorities == ValidPriorities \cup {Invalid}

IsValid(p) == p \in ValidPriorities

(***************************************************************************)
(* send.LevelInfo: a record [Default, Threshold].                          *)
(***************************************************************************)
LevelInfo(d, t) == [Default |-> d, Threshold |-> t]

LevelInfoValid(l) == IsValid(l.Default) /\ IsValid(l.Threshold)

(***************************************************************************)
(* Composers.  One record shape stands for every variant:                  *)
(*   kind      the concrete type                                           *)
(*   level     the composer's own priority field                           *)
(*   body      "text" when the content is not empty, "empty" otherwise;    *)
(*             for a lazy producer, the content its function returns       *)
(*   keys      the annotation keys the (cached) composer carries           *)
(*   hasFn     lazy producers: the wrapped function is not nil             *)
(*   fnLevel   composer producers: the priority of the composer the        *)
(*             function returns                                            *)
(*   resolved  lazy producers: cached # nil                                *)
(*   clevel    lazy producers: the priority of the cached composer         *)
(*   cbody     lazy producers: the content of the cached composer          *)
(*   calls     lazy producers: how often the wrapped function has run      *)
(*   panicked  a nil function was called (a Go runtime panic)              *)
(*   cond      the condition of message.When (TRUE when not conditional)   *)
(***************************************************************************)
LazyKinds == {"fieldsProducer", "composerProducer", "errorProducer"}

ConcreteKinds == {"string", "format", "line", "fields", "error"}

IsLazy(m) == m.kind \in LazyKinds

NewConcrete(kind, p, body, keys) ==
    [kind |-> kind, body |-> body, keys |-> keys,
     level |-> IF IsValid(p) THEN p ELSE Invalid, hasFn |-> FALSE,
     fnLevel |-> Invalid, resolved |-> FALSE, clevel |-> Invalid,
     cbody |-> "empty", calls |-> 0, panicked |-> FALSE, cond |-> TRUE]

NewLazy(kind, p, hasFn, body, fnLevel) ==
    [kind |-> kind, body |-> body, keys |-> {}, level |-> p,
     hasFn |-> hasFn, fnLevel |-> fnLevel, resolved |-> FALSE,
     clevel |-> Invalid, cbody |-> "empty", calls |-> 0, panicked |-> FALSE,
     cond |-> TRUE]

NewDefaultMessage(p, body) == NewConcrete("string", p, body, {})
NewFormattedMessage(p, body) == NewConcrete("format", p, body, {})
NewLineMessage(p, body) == NewConcrete("line", p, body, {})
NewErrorMessage(p, body) == NewConcrete("error", p, body, {})
NewFields(p, body) == NewConcrete("fields", p, body, {})

\* No composer.
NoMsg == NewConcrete("none", Invalid, "empty", {})

NewFieldsProducerMessage(p, hasFn, body) ==
    NewLazy("fieldsProducer", p, hasFn, body, Invalid)
NewComposerProducerMessage(p, hasFn, body, fnLevel) ==
    NewLazy("composerProducer", p, hasFn, body, fnLevel)
NewErrorProducerMessage(p, hasFn, body) ==
    NewLazy("errorProducer", p, hasFn, body, Invalid)

(***************************************************************************)
(* Lazy resolution (message/function.go).  Each resolve fills cached once. *)
(* The fields producer guards a nil function; the composer and the error   *)
(* producer call it unguarded, and calling a nil function panics.          *)
(***************************************************************************)
ValidOrInvalid(p) == IF IsValid(p) THEN p ELSE Invalid

\* A variant that calls the function on every resolve, cached or not.
fieldsProducerResolveAlways(m) ==
    IF ~m.hasFn
    THEN [m EXCEPT !.resolved = TRUE, !.cbody = "empty",
                   !.clevel = ValidOrInvalid(m.level)]
    ELSE [m EXCEPT !.resolved = TRUE, !.calls = @ + 1,
                   !.cbody = m.body,
                   !.clevel = ValidOrInvalid(m.level)]

fieldsProducerResolve(m) ==
    IF m.resolved THEN m
    ELSE IF ~m.hasFn
         THEN [m EXCEPT !.resolved = TRUE, !.cbody = "empty",
                        !.clevel = ValidOrInvalid(m.level)]
         ELSE [m EXCEPT !.resolved = TRUE, !.calls = @ + 1,
                        !.cbody = m.body,
                        !.clevel = ValidOrInvalid(m.level)]

composerProducerResolve(m) ==
    IF m.resolved THEN m
    ELSE IF ~m.hasFn
         THEN [m EXCEPT !.panicked = TRUE]
         ELSE IF m.body = "nil"
              THEN [m EXCEPT !.resolved = TRUE, !.calls = @ + 1,
                             !.cbody = "empty",
                             !.clevel = ValidOrInvalid(m.level)]
              ELSE [m EXCEPT !.resolved = TRUE, !.calls = @ + 1,
                             !.cbody = m.body,
                             !.clevel = IF IsValid(m.level) THEN m.level
                                        ELSE m.fnLevel]

errorProducerResolve(m) ==
    IF m.resolved THEN m
    ELSE IF ~m.hasFn
         THEN [m EXCEPT !.panicked = TRUE]
         ELSE [m EXCEPT !.resolved = TRUE, !.calls = @ + 1,
                        !.cbody = m.body,
                        !.clevel = ValidOrInvalid(m.level)]

resolve(m) ==
    CASE m.kind = "fieldsProducer" -> fieldsProducerResolve(m)
      [] m.kind = "composerProducer" -> composerProducerResolve(m)
      [] m.kind = "errorProducer" -> errorProducerResolve(m)
      [] OTHER -> m

(***************************************************************************)
(* The Composer methods.  <Method>Eff is the composer after the call, the  *)
(* other operator what the call returns.  A conditional composer           *)
(* (message.When) is loggable only if its condition holds and asks the     *)
(* wrapped composer only then.                                             *)
(***************************************************************************)
Content(m) == IF IsLazy(m) THEN m.cbody ELSE m.body

LoggableEff(m) ==
    IF ~m.cond THEN m
    ELSE IF IsLazy(m) /\ m.hasFn THEN resolve(m) ELSE m

Loggable(m) ==
    /\ m.cond
    /\ IF IsLazy(m)
       THEN m.hasFn /\ Content(LoggableEff(m)) = "text"
       ELSE m.body = "text"

Priority(m) == m.level

SetPriorityErr(m, p) == ~IsValid(p)

\* A variant that never passes the priority on to the cached composer.
SetPriorityEffPendingOnly(m, p) ==
    IF ~IsValid(p) THEN m
    ELSE [m EXCEPT !.level = p]

SetPriorityEff(m, p) ==
    IF ~IsValid(p) THEN m
    ELSE IF IsLazy(m) /\ m.resolved
         THEN [m EXCEPT !.level = p, !.clevel = p]
         ELSE [m EXCEPT !.level = p]

StringEff(m) == resolve(m)

String(m) == Content(StringEff(m))

RawEff(m) == resolve(m)

AnnotateErr(m, k) == k \in resolve(m).keys

AnnotateEff(m, k) ==
    LET r == resolve(m)
    IN  IF r.panicked \/ k \in r.keys THEN r
        ELSE [r EXCEPT !.keys = @ \cup {k}]

\* IsStructured(msg): a lazy producer is resolved and its cached composer
\* (fields or an error message) is asked.
IsStructuredEff(m) == resolve(m)

IsStructured(m) == m.kind \notin {"string", "format", "line"}

\* The error methods of the error producer.
CauseEff(m) == errorProducerResolve(m)

Cause(m) == Content(CauseEff(m))

UnwrapEff(m) == CauseEff(m)

\* errorProducerMessage.Error (Error names the level).
ErrorEff(m) == StringEff(m)

errorProducerError(m) == String(m)

\* Format writes for the verbs v, s and q, and nothing for any other verb.
FormatEff(m, verb) ==
    IF verb = "+v" THEN StringEff(CauseEff(m))
    ELSE IF verb \in {"v", "s", "q"} THEN ErrorEff(m)
    ELSE m

When(cond, m) == [m EXCEPT !.cond = cond]

(***************************************************************************)
(* LevelInfo.ShouldLog (the level policy).  The effective priority is the  *)
(* composer's, or Default when that is Invalid; a composer that is not     *)
(* loggable is rejected; so is one below Threshold, Emergency excepted.    *)
(* The call asks the composer whether it is loggable, which resolves a     *)
(* lazy producer.                                                          *)
(***************************************************************************)
EffectivePriority(l, m) ==
    IF Priority(m) = Invalid THEN l.Default ELSE Priority(m)

ShouldLog(l, m) ==
    /\ Loggable(m)
    /\ \/ EffectivePriority(l, m) >= l.Threshold
       \/ EffectivePriority(l, m) = Emergency

ShouldLogEff(l, m) == LoggableEff(m)

(***************************************************************************)
(* Message conversion (convert).  An input value is a record with a type   *)
(* tag; a function is not called by the conversion.                        *)
(***************************************************************************)
StringInput(body) == [body |-> body, type |-> "string"]
NilInput == [type |-> "nil"]
ErrorInput == [body |-> "text", type |-> "error"]
FieldsInput(body) == [body |-> body, type |-> "fields"]
OtherInput == [type |-> "other"]
FieldsFnInput(hasFn, body) ==
    [body |-> body, hasFn |-> hasFn, type |-> "fieldsFn"]
ComposerFnInput(hasFn, body, fnLevel) ==
    [body |-> body, hasFn |-> hasFn, fnLevel |-> fnLevel,
     type |-> "composerFn"]
ErrorFnInput(hasFn, body) ==
    [body |-> body, hasFn |-> hasFn, type |-> "errorFn"]
ComposerInput(m) == [m |-> m, type |-> "composer"]

\* A variant without the nil case: a nil value takes the default branch.
convertNoNilCase(p, message, overRideLevel) ==
    CASE message.type = "composer" ->
            IF overRideLevel \/ Priority(message.m) # Invalid
            THEN SetPriorityEff(message.m, p)
            ELSE message.m
      [] message.type = "string" -> NewDefaultMessage(p, message.body)
      [] message.type = "error" -> NewErrorMessage(p, message.body)
      [] message.type = "fieldsFn" ->
            NewFieldsProducerMessage(p, message.hasFn, message.body)
      [] message.type = "composerFn" ->
            NewComposerProducerMessage(p, message.hasFn, message.body,
                                       message.fnLevel)
      [] message.type = "errorFn" ->
            NewErrorProducerMessage(p, message.hasFn, message.body)
      [] message.type = "fields" -> NewFields(p, message.body)
      [] OTHER -> NewFormattedMessage(p, "text")

convert(p, message, overRideLevel) ==
    CASE message.type = "composer" ->
            IF overRideLevel \/ Priority(message.m) # Invalid
            THEN SetPriorityEff(message.m, p)
            ELSE message.m
      [] message.type = "string" -> NewDefaultMessage(p, message.body)
      [] message.type = "error" -> NewErrorMessage(p, message.body)
      [] message.type = "fieldsFn" ->
            NewFieldsProducerMessage(p, message.hasFn, message.body)
      [] message.type = "composerFn" ->
            NewComposerProducerMessage(p, message.hasFn, message.body,
                                       message.fnLevel)
      [] message.type = "errorFn" ->
            NewErrorProducerMessage(p, message.hasFn, message.body)
      [] message.type = "fields" -> NewFields(p, message.body)
      [] message.type = "nil" -> NewLineMessage(p, "empty")
      [] OTHER -> NewFormattedMessage(p, "text")

ConvertToComposer(p, message) == convert(p, message, TRUE)

ConvertToComposerWithLevel(p, message) == convert(p, message, FALSE)

(***************************************************************************)
(* Senders.  senders maps a sender's identity to its state:                *)
(*   kind         "testing" (a backend that writes what it accepts),       *)
(*                "twitter", "desktop" (backends whose transmission may    *)
(*                fail),                                                   *)
(*                "annotating" or "interceptor" (wrappers around inner)    *)
(*   name, level  the Base fields behind Name() and Level()                *)
(*   closed       Close has released the backend                           *)
(*   closeCalls   how often Close has been called                          *)
(*   closeErr     this sender's Close reports an error                     *)
(*   inner        a wrapper's embedded Sender (Nil for a backend)          *)
(*   annotations  an annotating wrapper's keys                             *)
(*   recorded     the number of messages the backend has written           *)
(*   errCalls     how often the error handler has been invoked             *)
(*   lastErr      the error of its last invocation: the keys of the        *)
(*                joined annotation errors, in order, or the backend's     *)
(*                transmission error                                       *)
(*   errMsg       the composer of its last invocation                      *)
(*   filtered     how often an interceptor's function has run              *)
(*   sawRecorded  what the interceptor's function last observed: the       *)
(*                number of messages the inner backend had written then    *)
(*   sendErr      twitter, desktop: the transmission (the client's Send,   *)
(*                beeep.Alert or beeep.Notify) fails                       *)
(*   transmits    twitter, desktop: how often a transmission was made      *)
(*   alerts       desktop: how many of them were beeep.Alert               *)
(*   handler      the error handler SetErrorHandler installed              *)
(*   hasFn        an interceptor: its function is not nil                  *)
(***************************************************************************)
Nil == 0

Keys == {"k", "j"}

\* The orders in which a range over a map of these keys may visit them.
Orders == {<<"k", "j">>, <<"j", "k">>}

NewSender(name, l, closeErr) ==
    [kind |-> "testing", level |-> l, hasFn |-> TRUE, name |-> name,
     closeErr |-> closeErr, closed |-> FALSE, closeCalls |-> 0,
     inner |-> Nil, annotations |-> {}, recorded |-> 0, errCalls |-> 0,
     lastErr |-> <<>>, errMsg |-> NoMsg, filtered |-> 0, sawRecorded |-> 0,
     sendErr |-> FALSE, transmits |-> 0, handler |-> "default",
     alerts |-> 0]

NewAnnotatingSender(s, annotations) ==
    [NewSender("", LevelInfo(Invalid, Invalid), FALSE)
        EXCEPT !.kind = "annotating", !.inner = s,
               !.annotations = annotations]

NewInterceptor(s, hasFn) ==
    [NewSender("", LevelInfo(Invalid, Invalid), FALSE)
        EXCEPT !.kind = "interceptor", !.inner = s, !.hasFn = hasFn]

\* A twitterLogger on a client whose Send fails (sendErr) or succeeds.
NewTwitterLogger(name, l, sendErr) ==
    [NewSender(name, l, FALSE) EXCEPT !.kind = "twitter",
                                      !.sendErr = sendErr]

\* A variant without promotion: a wrapper has Base fields of its own.
BaseOfSelf(S, id) == id

\* A desktopNotify whose notifications fail (sendErr) or succeed.
NewDesktopNotify(name, l, sendErr) ==
    [NewSender(name, l, FALSE) EXCEPT !.kind = "desktop",
                                      !.sendErr = sendErr]

\* The sender whose Base fields a (possibly wrapped) sender promotes.
RECURSIVE BaseOf(_, _)
BaseOf(S, id) == IF S[id].inner = Nil THEN id ELSE BaseOf(S, S[id].inner)

SenderName(S, id) == S[BaseOf(S, id)].name

SenderLevel(S, id) == S[BaseOf(S, id)].level

SenderSetName(S, id, n) == [S EXCEPT ![BaseOf(S, id)].name = n]

SenderSetLevelErr(S, id, l) == ~LevelInfoValid(l)

SenderSetLevel(S, id, l) ==
    IF LevelInfoValid(l) THEN [S EXCEPT ![BaseOf(S, id)].level = l] ELSE S

SenderCloseErr(S, id) == S[BaseOf(S, id)].closeErr

SenderClose(S, id) ==
    LET b == BaseOf(S, id)
    IN  [S EXCEPT ![b].closeCalls = @ + 1,
                  ![b].closed = IF S[b].closeErr THEN @ ELSE TRUE]

SenderErrorHandler(S, id) == S[BaseOf(S, id)].handler

SenderSetErrorHandler(S, id, h) == [S EXCEPT ![BaseOf(S, id)].handler = h]

ErrorHandler(S, id, err, m) ==
    [S EXCEPT ![BaseOf(S, id)].errCalls = @ + 1,
              ![BaseOf(S, id)].lastErr = err,
              ![BaseOf(S, id)].errMsg = m]

(***************************************************************************)
(* Send.  The result is [S, m, delivered, toClosed]: the senders and the   *)
(* composer after the call, the number of messages a backend wrote, and    *)
(* whether a closed backend received the call.                             *)
(***************************************************************************)
\* A variant that compares the composer's own priority with the threshold,
\* without the sender's default.
testLoggerSendNoDefault(S, id, m) ==
    IF Loggable(m) /\ Priority(m) >= S[id].level.Threshold
    THEN [m |-> StringEff(ShouldLogEff(S[id].level, m)),
          S |-> [S EXCEPT ![id].recorded = @ + 1], delivered |-> 1,
          toClosed |-> S[id].closed]
    ELSE [m |-> ShouldLogEff(S[id].level, m), S |-> S, delivered |-> 0,
          toClosed |-> S[id].closed]

\* A variant that writes every loggable message, whatever its level.
testLoggerSendUngated(S, id, m) ==
    IF Loggable(m)
    THEN [m |-> StringEff(ShouldLogEff(S[id].level, m)),
          S |-> [S EXCEPT ![id].recorded = @ + 1], delivered |-> 1,
          toClosed |-> S[id].closed]
    ELSE [m |-> ShouldLogEff(S[id].level, m), S |-> S, delivered |-> 0,
          toClosed |-> S[id].closed]

testLoggerSend(S, id, m) ==
    IF ShouldLog(S[id].level, m)
    THEN [m |-> StringEff(ShouldLogEff(S[id].level, m)),
          S |-> [S EXCEPT ![id].recorded = @ + 1], delivered |-> 1,
          toClosed |-> S[id].closed]
    ELSE [m |-> ShouldLogEff(S[id].level, m), S |-> S, delivered |-> 0,
          toClosed |-> S[id].closed]

\* The annotation loop: Annotate for every key of order that the wrapper
\* holds (Go ranges over the map in an order of its own choosing).
RECURSIVE AnnotateAll(_, _, _)
AnnotateAll(m, annotations, order) ==
    IF order = <<>> THEN [m |-> m, errs |-> <<>>]
    ELSE LET k == Head(order)
             rest == Tail(order)
         IN  IF k \notin annotations THEN AnnotateAll(m, annotations, rest)
             ELSE LET r == AnnotateAll(AnnotateEff(m, k), annotations, rest)
                  IN  IF AnnotateErr(m, k)
                      THEN [m |-> r.m, errs |-> <<k>> \o r.errs]
                      ELSE r

RECURSIVE SenderSend(_, _, _, _)
\* A variant that gives up the send when an annotation fails.
annotatingSenderSendAbort(S, id, m, order) ==
    IF ~ShouldLog(SenderLevel(S, S[id].inner), m)
    THEN [m |-> ShouldLogEff(SenderLevel(S, S[id].inner), m), S |-> S,
          delivered |-> 0, toClosed |-> FALSE]
    ELSE LET a == AnnotateAll(ShouldLogEff(SenderLevel(S, S[id].inner), m),
                              S[id].annotations, order)
         IN  IF Len(a.errs) > 0
             THEN [m |-> a.m, S |-> ErrorHandler(S, id, a.errs, a.m),
                   delivered |-> 0, toClosed |-> FALSE]
             ELSE SenderSend(S, S[id].inner, a.m, order)

\* A variant that invokes the error handler once for each failing key.
annotatingSenderSendEachErr(S, id, m, order) ==
    IF ~ShouldLog(SenderLevel(S, S[id].inner), m)
    THEN [m |-> ShouldLogEff(SenderLevel(S, S[id].inner), m), S |-> S,
          delivered |-> 0, toClosed |-> FALSE]
    ELSE LET a == AnnotateAll(ShouldLogEff(SenderLevel(S, S[id].inner), m),
                              S[id].annotations, order)
             S1 == IF Len(a.errs) > 0
                   THEN ErrorHandler(S, id, <<a.errs[1]>>, a.m) ELSE S
             S2 == IF Len(a.errs) > 1
                   THEN ErrorHandler(S1, id, <<a.errs[2]>>, a.m) ELSE S1
         IN  SenderSend(S2, S[id].inner, a.m, order)

\* A variant that annotates before it asks the inner sender's level.
annotatingSenderSendUngated(S, id, m, order) ==
    LET a == AnnotateAll(ShouldLogEff(SenderLevel(S, S[id].inner), m),
                         S[id].annotations, order)
        S1 == IF Len(a.errs) > 0
              THEN ErrorHandler(S, id, a.errs, a.m) ELSE S
    IN  SenderSend(S1, S[id].inner, a.m, order)

annotatingSenderSend(S, id, m, order) ==
    IF ~ShouldLog(SenderLevel(S, S[id].inner), m)
    THEN [m |-> ShouldLogEff(SenderLevel(S, S[id].inner), m), S |-> S,
          delivered |-> 0, toClosed |-> FALSE]
    ELSE LET a == AnnotateAll(ShouldLogEff(SenderLevel(S, S[id].inner), m),
                              S[id].annotations, order)
             S1 == IF Len(a.errs) > 0
                   THEN ErrorHandler(S, id, a.errs, a.m) ELSE S
         IN  SenderSend(S1, S[id].inner, a.m, order)

\* The interceptor's function: it counts its calls and notes how many
\* messages the inner backend has written so far.
filter(S, id) ==
    [S EXCEPT ![id].filtered = @ + 1,
              ![id].sawRecorded = S[BaseOf(S, id)].recorded]

\* A variant that runs the function only on messages the inner sender's
\* level accepts.
interceptorSendFiltered(S, id, m, order) ==
    IF ShouldLog(SenderLevel(S, S[id].inner), m)
    THEN SenderSend(filter(S, id), S[id].inner, m, order)
    ELSE SenderSend(S, S[id].inner, m, order)

\* s.filter(m) with a nil function: a Go runtime panic, before anything
\* else is done.
interceptorSendPanics(S, id) == S[id].kind = "interceptor" /\ ~S[id].hasFn

interceptorSend(S, id, m, order) ==
    SenderSend(filter(S, id), S[id].inner, m, order)

\* A variant that transmits a second time when the first attempt fails.
twitterLoggerSendRetry(S, id, m) ==
    IF ShouldLog(S[id].level, m)
    THEN LET r == StringEff(ShouldLogEff(S[id].level, m))
         IN  IF S[id].sendErr
             THEN [m |-> r,
                   S |-> ErrorHandler([S EXCEPT ![id].transmits = @ + 2],
                                      id, <<"sendERROR">>, r),
                   delivered |-> 0, toClosed |-> S[id].closed]
             ELSE [m |-> r,
                   S |-> [S EXCEPT ![id].transmits = @ + 1,
                                   ![id].recorded = @ + 1],
                   delivered |-> 1, toClosed |-> S[id].closed]
    ELSE [m |-> ShouldLogEff(S[id].level, m), S |-> S, delivered |-> 0,
          toClosed |-> S[id].closed]

\* twitterLogger.Send: one call of the client's Send with m.String(); its
\* error goes to the error handler, with the message.
twitterLoggerSend(S, id, m) ==
    IF ShouldLog(S[id].level, m)
    THEN LET r == StringEff(ShouldLogEff(S[id].level, m))
         IN  IF S[id].sendErr
             THEN [m |-> r,
                   S |-> ErrorHandler([S EXCEPT ![id].transmits = @ + 1],
                                      id, <<"sendERROR">>, r),
                   delivered |-> 0, toClosed |-> S[id].closed]
             ELSE [m |-> r,
                   S |-> [S EXCEPT ![id].transmits = @ + 1,
                                   ![id].recorded = @ + 1],
                   delivered |-> 1, toClosed |-> S[id].closed]
    ELSE [m |-> ShouldLogEff(S[id].level, m), S |-> S, delivered |-> 0,
          toClosed |-> S[id].closed]

\* beeep.Alert for a message at Critical or above, beeep.Notify otherwise,
\* with the sender's name and m.String(); an error goes to the error
\* handler.
desktopNotifyTransmit(S, id, m) ==
    LET r == StringEff(ShouldLogEff(S[id].level, m))
        T == [S EXCEPT ![id].transmits = @ + 1,
                       ![id].alerts = IF Priority(m) >= Critical
                                      THEN @ + 1 ELSE @]
    IN  IF S[id].sendErr
        THEN [m |-> r, S |-> ErrorHandler(T, id, <<"sendERROR">>, r),
              delivered |-> 0, toClosed |-> S[id].closed]
        ELSE [m |-> r, S |-> [T EXCEPT ![id].recorded = @ + 1],
              delivered |-> 1, toClosed |-> S[id].closed]

\* A variant that notifies without asking the level.
desktopNotifySendUngated(S, id, m) == desktopNotifyTransmit(S, id, m)

desktopNotifySend(S, id, m) ==
    IF ShouldLog(S[id].level, m)
    THEN desktopNotifyTransmit(S, id, m)
    ELSE [m |-> ShouldLogEff(S[id].level, m), S |-> S, delivered |-> 0,
          toClosed |-> S[id].closed]

SenderSend(S, id, m, order) ==
    CASE S[id].kind = "annotating" -> annotatingSenderSend(S, id, m, order)
      [] S[id].kind = "interceptor" -> interceptorSend(S, id, m, order)
      [] S[id].kind = "twitter" -> twitterLoggerSend(S, id, m)
      [] S[id].kind = "desktop" -> desktopNotifySend(S, id, m)
      [] OTHER -> testLoggerSend(S, id, m)

(***************************************************************************)
(* The Grip logger (logging/logger.go) and its callers.                    *)
(*   impl, defaultLevel   the fields of Grip                               *)
(*   mu                   Grip.mu: w is the thread that holds or waits for *)
(*                        the write lock, readers the read-lock holders    *)
(*   pc, call             each thread's position and the call it is in     *)
(*   ncalls               the number of calls begun                        *)
(*   exited               os.Exit has ended the process                    *)
(***************************************************************************)
VARIABLES impl, defaultLevel, senders, mu, pc, call, ncalls, exited

(***************************************************************************)
(* A composer in the hands of one caller, for the claims about the         *)
(* composer methods and the level policy alone.                            *)
(*   composer   the composer                                               *)
(*   policy     the LevelInfo that ShouldLog is asked with                 *)
(*   accessed   the methods that have been called on the composer          *)
(*   returned   what the last call returned                                *)
(*   arg        the arguments of the conversion that made the composer     *)
(***************************************************************************)
VARIABLES composer, policy, accessed, returned, arg

loggerVars == <<impl, defaultLevel, senders, mu, pc, call, ncalls, exited>>

composerVars == <<composer, policy, accessed, returned, arg>>

vars == <<loggerVars, composerVars>>

Threads == {1, 2}

SenderIds == {1, 2, 3}

MaxCalls == 3

NoPre == [level |-> LevelInfo(Invalid, Invalid), name |-> "",
          closeCalls |-> 0, impl |-> Nil]

\* A call's frame: its arguments, then what it has done so far.
\*   s, n, info   the argument of SetSender, SetName, SetLevel; for a call
\*                made on a sender, s is that sender and n also the handler
\*                given to SetErrorHandler
\*   v            the value a logging call was given
\*   pre          SetSender: the logger's sender as the call found it
\*   sl           SetLevel: the sender's LevelInfo as the call read it
\*   handed       the number of Send calls made on the logger's sender
\*   delivered    the number of messages a backend wrote for this call
\*   toClosed     a closed backend received the message
\*   accepted     sendPanic, sendFatal: what ShouldLog answered
\*   aborted      the call ended in panic or os.Exit
\*   err          the call returned an error
\*   gotName      what Name returned
\*   gotSender    what GetSender returned
NoCall ==
    [s |-> Nil, n |-> "", err |-> FALSE, delivered |-> 0,
     toClosed |-> FALSE, op |-> "none", lvl |-> Invalid, msg |-> NoMsg,
     info |-> LevelInfo(Invalid, Invalid), pre |-> NoPre, handed |-> 0,
     accepted |-> FALSE, aborted |-> FALSE, gotName |-> "",
     gotSender |-> Nil, sl |-> LevelInfo(Invalid, Invalid),
     v |-> OtherInput]

At(t, p) == ~exited /\ pc[t] = p

CanBegin(t) == At(t, "idle") /\ ncalls < MaxCalls

Begin(t, p, c) ==
    /\ CanBegin(t)
    /\ pc' = [pc EXCEPT ![t] = p]
    /\ call' = [call EXCEPT ![t] = c]
    /\ ncalls' = ncalls + 1
    /\ UNCHANGED <<composerVars, impl, defaultLevel, senders, mu, exited>>

(***************************************************************************)
(* The logging entry points.  Each builds its composer and passes it to    *)
(* send (Send converts at the logger's default priority).  The methods     *)
(* named after a level are Log, Logf, Logln and LogWhen at that level.     *)
(***************************************************************************)
Log(t, levels, inputs) ==
    \E l \in levels, v \in inputs :
        Begin(t, "rlock", [NoCall EXCEPT !.op = "Log", !.lvl = l, !.v = v,
                              !.msg = ConvertToComposer(l, v)])

\* A variant that builds the message at the logger's default level.
LogfAtDefault(t, levels, bodies) ==
    \E l \in levels, body \in bodies :
        Begin(t, "rlock", [NoCall EXCEPT !.op = "Logf", !.lvl = l,
                              !.msg = NewFormattedMessage(defaultLevel, body)])

Logf(t, levels, bodies) ==
    \E l \in levels, body \in bodies :
        Begin(t, "rlock", [NoCall EXCEPT !.op = "Logf", !.lvl = l,
                              !.msg = NewFormattedMessage(l, body)])

Logln(t, levels, bodies) ==
    \E l \in levels, body \in bodies :
        Begin(t, "rlock", [NoCall EXCEPT !.op = "Logln", !.lvl = l,
                              !.msg = NewLineMessage(l, body)])

\* A variant that renders the value before it looks at the condition.
LogWhenEager(t, levels, inputs) ==
    \E conditional \in BOOLEAN, l \in levels, v \in inputs :
        Begin(t, "rlock",
              [NoCall EXCEPT !.op = "LogWhen", !.lvl = l, !.v = v,
                  !.msg = When(conditional,
                               StringEff(ConvertToComposer(l, v)))])

LogWhen(t, levels, inputs) ==
    \E conditional \in BOOLEAN, l \in levels, v \in inputs :
        Begin(t, "rlock",
              [NoCall EXCEPT !.op = "LogWhen", !.lvl = l, !.v = v,
                  !.msg = When(conditional, ConvertToComposer(l, v))])

Send(t, inputs) ==
    \E v \in inputs :
        Begin(t, "rlock",
              [NoCall EXCEPT !.op = "Send", !.lvl = defaultLevel, !.v = v,
                  !.msg = ConvertToComposer(defaultLevel, v)])

EmergencyPanic(t, inputs) ==
    \E v \in inputs :
        Begin(t, "rlock",
              [NoCall EXCEPT !.op = "EmergencyPanic", !.lvl = Emergency,
                  !.v = v,
                  !.msg = ConvertToComposer(Emergency, v)])

EmergencyFatal(t, inputs) ==
    \E v \in inputs :
        Begin(t, "rlock",
              [NoCall EXCEPT !.op = "EmergencyFatal", !.lvl = Emergency,
                  !.v = v,
                  !.msg = ConvertToComposer(Emergency, v)])

LoggingOps == {"Log", "Logf", "Logln", "LogWhen", "Send"}

AbortingOps == {"EmergencyPanic", "EmergencyFatal"}

(***************************************************************************)
(* The configuration calls and the getters.                                *)
(***************************************************************************)
SetName(t, names) ==
    \E n \in names :
        Begin(t, "rlock", [NoCall EXCEPT !.op = "SetName", !.n = n])

SetLevel(t, infos) ==
    \E info \in infos :
        Begin(t, "rlock", [NoCall EXCEPT !.op = "SetLevel", !.info = info])

Name(t) == Begin(t, "rlock", [NoCall EXCEPT !.op = "Name"])

GetSender(t) == Begin(t, "rlock", [NoCall EXCEPT !.op = "GetSender"])

(***************************************************************************)
(* Grip.mu.  RLock waits while a writer holds or waits for the lock; Lock  *)
(* excludes other writers first and then waits for the readers to leave.   *)
(***************************************************************************)
Release(m, t) ==
    [w |-> IF m.w = t THEN Nil ELSE m.w, readers |-> m.readers \ {t}]

AfterRLock(op) ==
    CASE op \in LoggingOps -> "send"
      [] op \in AbortingOps -> "check"
      [] op = "SetName" -> "setname"
      [] op = "SetLevel" -> "level"
      [] OTHER -> "get"

RLock(t) ==
    /\ At(t, "rlock")
    /\ mu.w = Nil
    /\ mu' = [mu EXCEPT !.readers = @ \cup {t}]
    /\ pc' = [pc EXCEPT ![t] = AfterRLock(call[t].op)]
    /\ UNCHANGED <<composerVars, impl, defaultLevel, senders, call, ncalls, exited>>

\* A variant that returns without releasing the read lock.
RUnlockHeld(t) ==
    /\ At(t, "runlock")
    /\ pc' = [pc EXCEPT ![t] = "idle"]
    /\ call' = [call EXCEPT ![t] = NoCall]
    /\ UNCHANGED <<composerVars, impl, defaultLevel, senders, mu, ncalls, exited>>

RUnlock(t) ==
    /\ At(t, "runlock")
    /\ mu' = Release(mu, t)
    /\ pc' = [pc EXCEPT ![t] = "idle"]
    /\ call' = [call EXCEPT ![t] = NoCall]
    /\ UNCHANGED <<composerVars, impl, defaultLevel, senders, ncalls, exited>>

\* A call that ended without unlocking (a refused SetSender, a recovered
\* panic) has returned; the thread is free for its next call.
Return(t) ==
    /\ At(t, "ret")
    /\ pc' = [pc EXCEPT ![t] = "idle"]
    /\ call' = [call EXCEPT ![t] = NoCall]
    /\ UNCHANGED <<composerVars, impl, defaultLevel, senders, mu, ncalls, exited>>

(***************************************************************************)
(* The bodies of the read-locked calls.                                    *)
(***************************************************************************)
\* g.impl.Send(m), with its effect on the call's frame.
\* A panic in Send (an interceptor without a function as the logger's
\* sender) unwinds the logging call: its frame is marked aborted.
ImplSendCall(t, order) ==
    IF interceptorSendPanics(senders, impl)
    THEN /\ senders' = senders
         /\ call' = [call EXCEPT ![t].handed = @ + 1, ![t].aborted = TRUE]
    ELSE LET r == SenderSend(senders, impl, call[t].msg, order)
         IN  /\ senders' = r.S
             /\ call' = [call EXCEPT ![t].msg = r.m,
                                     ![t].handed = @ + 1,
                                     ![t].delivered = @ + r.delivered,
                                     ![t].toClosed = r.toClosed]

\* Grip.send and Grip.Send: g.impl.Send(m) under the read lock.
send(t) ==
    /\ At(t, "send")
    /\ \E order \in Orders : ImplSendCall(t, order)
    /\ pc' = [pc EXCEPT ![t] = "runlock"]
    /\ UNCHANGED <<composerVars, impl, defaultLevel, mu, ncalls, exited>>

\* A variant that delivers and aborts whatever ShouldLog answers.
sendAbortCheckAlways(t) ==
    /\ At(t, "check")
    /\ LET l == SenderLevel(senders, impl)
       IN  /\ call' = [call EXCEPT
                  ![t].accepted = ShouldLog(l, call[t].msg),
                  ![t].msg = ShouldLogEff(l, call[t].msg)]
           /\ pc' = [pc EXCEPT ![t] = "deliver"]
    /\ UNCHANGED <<composerVars, impl, defaultLevel, senders, mu, ncalls, exited>>

\* Grip.sendPanic and Grip.sendFatal: the ShouldLog check ...
sendAbortCheck(t) ==
    /\ At(t, "check")
    /\ LET l == SenderLevel(senders, impl)
           ok == ShouldLog(l, call[t].msg)
       IN  /\ call' = [call EXCEPT ![t].accepted = ok,
                                   ![t].msg = ShouldLogEff(l, call[t].msg)]
           /\ pc' = [pc EXCEPT ![t] = IF ok THEN "deliver" ELSE "runlock"]
    /\ UNCHANGED <<composerVars, impl, defaultLevel, senders, mu, ncalls, exited>>

\* ... the delivery ...
sendAbortDeliver(t) ==
    /\ At(t, "deliver")
    /\ \E order \in Orders : ImplSendCall(t, order)
    /\ pc' = [pc EXCEPT ![t] = IF interceptorSendPanics(senders, impl)
                               THEN "runlock" ELSE "abort"]
    /\ UNCHANGED <<composerVars, impl, defaultLevel, mu, ncalls, exited>>

\* A variant whose panic leaves the read lock held.
sendPanicAbortHeld(t) ==
    /\ At(t, "abort")
    /\ call[t].op = "EmergencyPanic"
    /\ call' = [call EXCEPT ![t].aborted = TRUE]
    /\ pc' = [pc EXCEPT ![t] = "ret"]
    /\ UNCHANGED <<composerVars, impl, defaultLevel, senders, mu, ncalls, exited>>

\* ... and the abort.  A panic unwinds through the deferred RUnlock; the
\* caller recovers it.
sendPanicAbort(t) ==
    /\ At(t, "abort")
    /\ call[t].op = "EmergencyPanic"
    /\ call' = [call EXCEPT ![t].aborted = TRUE]
    /\ mu' = Release(mu, t)
    /\ pc' = [pc EXCEPT ![t] = "ret"]
    /\ UNCHANGED <<composerVars, impl, defaultLevel, senders, ncalls, exited>>

\* os.Exit(1) ends the process: no thread takes another step.
sendFatalExit(t) ==
    /\ At(t, "abort")
    /\ call[t].op = "EmergencyFatal"
    /\ call' = [call EXCEPT ![t].aborted = TRUE]
    /\ exited' = TRUE
    /\ pc' = [pc EXCEPT ![t] = "ret"]
    /\ UNCHANGED <<composerVars, impl, defaultLevel, senders, mu, ncalls>>

\* Grip.SetName: g.impl.SetName(n).
\* A variant that names only a sender that has no name yet.
SetNameCallIfUnnamed(t) ==
    /\ At(t, "setname")
    /\ senders' = IF SenderName(senders, impl) = ""
                  THEN SenderSetName(senders, impl, call[t].n)
                  ELSE senders
    /\ pc' = [pc EXCEPT ![t] = "runlock"]
    /\ UNCHANGED <<composerVars, impl, defaultLevel, mu, call, ncalls, exited>>

SetNameCall(t) ==
    /\ At(t, "setname")
    /\ senders' = SenderSetName(senders, impl, call[t].n)
    /\ pc' = [pc EXCEPT ![t] = "runlock"]
    /\ UNCHANGED <<composerVars, impl, defaultLevel, mu, call, ncalls, exited>>

\* Grip.SetLevel: sl := g.impl.Level() ...
SetLevelRead(t) ==
    /\ At(t, "level")
    /\ call' = [call EXCEPT ![t].sl = SenderLevel(senders, impl)]
    /\ pc' = [pc EXCEPT ![t] = "setlevel"]
    /\ UNCHANGED <<composerVars, impl, defaultLevel, senders, mu, ncalls, exited>>

\* The argument with its invalid fields filled from sl.
FillLevel(info, sl) ==
    LevelInfo(IF IsValid(info.Default) THEN info.Default ELSE sl.Default,
              IF IsValid(info.Threshold) THEN info.Threshold
              ELSE sl.Threshold)

\* A variant that passes the argument on as it came.
SetLevelCallUnfilled(t) ==
    /\ At(t, "setlevel")
    /\ senders' = SenderSetLevel(senders, impl, call[t].info)
    /\ call' = [call EXCEPT ![t].err =
                    SenderSetLevelErr(senders, impl, call[t].info)]
    /\ pc' = [pc EXCEPT ![t] = "runlock"]
    /\ UNCHANGED <<composerVars, impl, defaultLevel, mu, ncalls, exited>>

\* ... fill the invalid fields of info, and g.impl.SetLevel(info).
SetLevelCall(t) ==
    /\ At(t, "setlevel")
    /\ LET info == FillLevel(call[t].info, call[t].sl)
       IN  /\ senders' = SenderSetLevel(senders, impl, info)
           /\ call' = [call EXCEPT ![t].err =
                           SenderSetLevelErr(senders, impl, info)]
    /\ pc' = [pc EXCEPT ![t] = "runlock"]
    /\ UNCHANGED <<composerVars, impl, defaultLevel, mu, ncalls, exited>>

\* Grip.Name and Grip.GetSender.
GetCall(t) ==
    /\ At(t, "get")
    /\ call' = [call EXCEPT ![t].gotName = IF call[t].op = "Name"
                                           THEN SenderName(senders, impl)
                                           ELSE @,
                            ![t].gotSender = IF call[t].op = "GetSender"
                                             THEN impl ELSE @]
    /\ pc' = [pc EXCEPT ![t] = "runlock"]
    /\ UNCHANGED <<composerVars, impl, defaultLevel, senders, mu, ncalls, exited>>

(***************************************************************************)
(* Grip.SetSender.  A nil sender is refused before the lock is taken.  The *)
(* incoming sender is one the caller has just constructed: it is not the   *)
(* logger's sender and no other call holds it.                             *)
(***************************************************************************)
Fresh(s) ==
    /\ BaseOf(senders, s) # BaseOf(senders, impl)
    /\ senders[BaseOf(senders, s)].closeCalls = 0
    /\ \A u \in Threads : call[u].s # s

\* A variant that closes the current sender before it looks at s.
SetSenderNilAfterClose(t) ==
    /\ CanBegin(t)
    /\ pc' = [pc EXCEPT ![t] = "ret"]
    /\ call' = [call EXCEPT ![t] = [NoCall EXCEPT !.op = "SetSender",
                                                  !.s = Nil, !.err = TRUE]]
    /\ ncalls' = ncalls + 1
    /\ senders' = SenderClose(senders, impl)
    /\ UNCHANGED <<composerVars, impl, defaultLevel, mu, exited>>

SetSenderNil(t) ==
    Begin(t, "ret", [NoCall EXCEPT !.op = "SetSender", !.s = Nil,
                        !.err = TRUE])

SetSender(t) ==
    \/ SetSenderNil(t)
    \/ \E s \in SenderIds :
          /\ Fresh(s)
          /\ Begin(t, "lock", [NoCall EXCEPT !.op = "SetSender", !.s = s])

\* A variant that takes the read lock, as SetName does.
SetSenderRLock(t) ==
    /\ At(t, "lock")
    /\ mu.w = Nil
    /\ mu' = [mu EXCEPT !.readers = @ \cup {t}]
    /\ pc' = [pc EXCEPT ![t] = "copylevel"]
    /\ UNCHANGED <<composerVars, impl, defaultLevel, senders, call, ncalls, exited>>

\* g.mu.Lock(): exclude the other writers and the new readers ...
SetSenderLock(t) ==
    /\ At(t, "lock")
    /\ mu.w = Nil
    /\ mu' = [mu EXCEPT !.w = t]
    /\ pc' = [pc EXCEPT ![t] = "wait"]
    /\ UNCHANGED <<composerVars, impl, defaultLevel, senders, call, ncalls, exited>>

\* A variant that does not wait for the readers.
SetSenderLockedAtOnce(t) ==
    /\ At(t, "wait")
    /\ pc' = [pc EXCEPT ![t] = "copylevel"]
    /\ UNCHANGED <<composerVars, impl, defaultLevel, senders, mu, call, ncalls, exited>>

\* ... and wait until the readers have left.
SetSenderLocked(t) ==
    /\ At(t, "wait")
    /\ mu.readers = {}
    /\ pc' = [pc EXCEPT ![t] = "copylevel"]
    /\ UNCHANGED <<composerVars, impl, defaultLevel, senders, mu, call, ncalls, exited>>

\* A variant that goes on to close and install after a refused SetLevel.
SetSenderCopyLevelIgnored(t) ==
    /\ At(t, "copylevel")
    /\ LET l == SenderLevel(senders, impl)
       IN  /\ senders' = SenderSetLevel(senders, call[t].s, l)
           /\ call' = [call EXCEPT
                  ![t].pre = [level |-> l,
                              name |-> SenderName(senders, impl),
                              closeCalls |->
                                  senders[BaseOf(senders, impl)].closeCalls,
                              impl |-> impl]]
           /\ pc' = [pc EXCEPT ![t] = "close"]
    /\ UNCHANGED <<composerVars, impl, defaultLevel, mu, ncalls, exited>>

\* s.SetLevel(g.impl.Level())
SetSenderCopyLevel(t) ==
    /\ At(t, "copylevel")
    /\ LET l == SenderLevel(senders, impl)
           bad == SenderSetLevelErr(senders, call[t].s, l)
       IN  /\ senders' = SenderSetLevel(senders, call[t].s, l)
           /\ call' = [call EXCEPT
                  ![t].pre = [level |-> l,
                              name |-> SenderName(senders, impl),
                              closeCalls |->
                                  senders[BaseOf(senders, impl)].closeCalls,
                              impl |-> impl],
                  ![t].err = bad]
           /\ pc' = [pc EXCEPT ![t] = IF bad THEN "unlock" ELSE "close"]
    /\ UNCHANGED <<composerVars, impl, defaultLevel, mu, ncalls, exited>>

\* g.impl.Close()
SetSenderClose(t) ==
    /\ At(t, "close")
    /\ senders' = SenderClose(senders, impl)
    /\ call' = [call EXCEPT ![t].err = SenderCloseErr(senders, impl)]
    /\ pc' = [pc EXCEPT ![t] = IF SenderCloseErr(senders, impl)
                               THEN "unlock" ELSE "install"]
    /\ UNCHANGED <<composerVars, impl, defaultLevel, mu, ncalls, exited>>

\* A variant that installs s under the name it was constructed with.
SetSenderInstallKeepName(t) ==
    /\ At(t, "install")
    /\ impl' = call[t].s
    /\ pc' = [pc EXCEPT ![t] = "unlock"]
    /\ UNCHANGED <<composerVars, defaultLevel, senders, mu, call, ncalls, exited>>

\* s.SetName(g.impl.Name()); g.impl = s
SetSenderInstall(t) ==
    /\ At(t, "install")
    /\ senders' = SenderSetName(senders, call[t].s, SenderName(senders, impl))
    /\ impl' = call[t].s
    /\ pc' = [pc EXCEPT ![t] = "unlock"]
    /\ UNCHANGED <<composerVars, defaultLevel, mu, call, ncalls, exited>>

\* the deferred g.mu.Unlock()
SetSenderUnlock(t) ==
    /\ At(t, "unlock")
    /\ mu' = Release(mu, t)
    /\ pc' = [pc EXCEPT ![t] = "idle"]
    /\ call' = [call EXCEPT ![t] = NoCall]
    /\ UNCHANGED <<composerVars, impl, defaultLevel, senders, ncalls, exited>>

(***************************************************************************)
(* The logger under concurrent use.  MakeGrip wraps a sender somebody      *)
(* built and logs at Info by default; NewGrip builds a sender at Trace and *)
(* leaves the default level unset.                                         *)
(***************************************************************************)
InitSenders(l) ==
    [id \in SenderIds |->
        CASE id = 1 -> NewSender("a", l, FALSE)
          [] id = 2 -> NewSender("b", LevelInfo(Debug, Warning), TRUE)
          [] OTHER -> NewSender("c", LevelInfo(Notice, Emergency), FALSE)]

MakeGrip ==
    /\ impl = 1
    /\ defaultLevel = Info
    /\ senders = InitSenders(LevelInfo(Info, Info))

NewGrip ==
    /\ impl = 1
    /\ defaultLevel = Invalid
    /\ senders = InitSenders(LevelInfo(Trace, Trace))

NoReturn ==
    [level |-> Invalid, op |-> "none", bool |-> FALSE, text |-> "",
     panic |-> FALSE]

\* No conversion has been made.
NoArg ==
    [p |-> Invalid, overRideLevel |-> FALSE, v |-> OtherInput,
     converted |-> FALSE]

ComposerIdle ==
    /\ composer = NoMsg
    /\ policy = LevelInfo(Invalid, Invalid)
    /\ accessed = {}
    /\ returned = NoReturn
    /\ arg = NoArg

LoggerIdle ==
    /\ mu = [w |-> Nil, readers |-> {}]
    /\ pc = [t \in Threads |-> "idle"]
    /\ call = [t \in Threads |-> NoCall]
    /\ ncalls = 0
    /\ exited = FALSE

Init == (MakeGrip \/ NewGrip) /\ LoggerIdle /\ ComposerIdle

Step(t) ==
    \/ RLock(t) \/ RUnlock(t) \/ Return(t)
    \/ send(t)
    \/ sendAbortCheck(t) \/ sendAbortDeliver(t)
    \/ sendPanicAbort(t) \/ sendFatalExit(t)
    \/ SetNameCall(t) \/ SetLevelRead(t) \/ SetLevelCall(t) \/ GetCall(t)
    \/ SetSenderLock(t) \/ SetSenderLocked(t) \/ SetSenderCopyLevel(t)
    \/ SetSenderClose(t) \/ SetSenderInstall(t) \/ SetSenderUnlock(t)

\* The values the concurrent threads pass.
ConcLevels == {Debug, Emergency}

ConcInputs == {StringInput("text"), FieldsFnInput(TRUE, "text")}

ConcNames == {"n"}

ConcInfos == {LevelInfo(Invalid, Error), LevelInfo(Debug, Invalid)}

Next ==
    \E t \in Threads :
        \/ Log(t, ConcLevels, ConcInputs)
        \/ Logf(t, ConcLevels, {"text"})
        \/ Logln(t, ConcLevels, {"text"})
        \/ LogWhen(t, ConcLevels, ConcInputs)
        \/ Send(t, ConcInputs)
        \/ EmergencyPanic(t, ConcInputs)
        \/ EmergencyFatal(t, ConcInputs)
        \/ SetName(t, ConcNames)
        \/ SetLevel(t, ConcInfos)
        \/ Name(t)
        \/ GetSender(t)
        \/ SetSender(t)
        \/ Step(t)

Spec == Init /\ [][Next]_vars

(***************************************************************************)
(* The logger in the hands of one thread, called with every kind of value  *)
(* at every level.                                                         *)
(***************************************************************************)
SeqThreads == {1}

SeqInputs ==
    {StringInput("text"), StringInput("empty"), NilInput, ErrorInput,
     FieldsInput("text"), FieldsInput("empty"), OtherInput,
     FieldsFnInput(TRUE, "text"), FieldsFnInput(TRUE, "empty"),
     FieldsFnInput(FALSE, "empty"),
     ComposerFnInput(TRUE, "text", Info), ComposerFnInput(TRUE, "nil", Invalid),
     ComposerFnInput(FALSE, "empty", Invalid),
     ErrorFnInput(TRUE, "text"), ErrorFnInput(TRUE, "empty"),
     ErrorFnInput(FALSE, "empty"),
     ComposerInput(NewFields(Alert, "text")),
     ComposerInput(NewFieldsProducerMessage(Invalid, TRUE, "text")),
     ComposerInput(NewErrorProducerMessage(Warning, TRUE, "text"))}

SeqInfos ==
    {LevelInfo(d, th) : d \in {Invalid, Critical},
                        th \in {Invalid, Notice, Emergency}}

WhenLevels == {Invalid, Debug, Emergency}

WhenInputs ==
    {StringInput("text"), StringInput("empty"), FieldsFnInput(TRUE, "text"),
     ErrorFnInput(FALSE, "empty")}

NextSeq ==
    \E t \in SeqThreads :
        \/ Log(t, Priorities, SeqInputs)
        \/ Logf(t, Priorities, {"text", "empty"})
        \/ Logln(t, Priorities, {"text", "empty"})
        \/ LogWhen(t, WhenLevels, WhenInputs)
        \/ Send(t, SeqInputs)
        \/ EmergencyPanic(t, SeqInputs)
        \/ EmergencyFatal(t, SeqInputs)
        \/ SetName(t, ConcNames)
        \/ SetLevel(t, SeqInfos)
        \/ Name(t)
        \/ GetSender(t)
        \/ SetSender(t)
        \/ Step(t)

SpecSeq == Init /\ [][NextSeq]_vars

(***************************************************************************)
(* Construction with any argument: MakeGrip stores the sender it is given, *)
(* nil included.  On a logger without a sender GetSender returns nil and   *)
(* SetSender(nil) its error; every other method calls a method of the nil  *)
(* sender, which panics (the deferred unlock runs), so the logger stays    *)
(* without a sender.                                                       *)
(***************************************************************************)
MakeGripNil ==
    /\ impl = Nil
    /\ defaultLevel = Info
    /\ senders = InitSenders(LevelInfo(Info, Info))

InitConstruct ==
    /\ MakeGrip \/ NewGrip \/ MakeGripNil
    /\ LoggerIdle
    /\ ComposerIdle

NilOps ==
    {"Log", "Logf", "Logln", "LogWhen", "Send", "EmergencyPanic",
     "EmergencyFatal", "Name", "SetName", "SetLevel", "SetSender"}

\* g.impl.<method>() with g.impl nil
NilSenderCall(t) ==
    \E op \in NilOps :
        Begin(t, "ret", [NoCall EXCEPT !.op = op, !.aborted = TRUE])

\* return g.impl, with g.impl nil
NilGetSender(t) == Begin(t, "ret", [NoCall EXCEPT !.op = "GetSender"])

NextConstruct ==
    \E t \in SeqThreads :
        \/ /\ impl # Nil
           /\ \/ Log(t, ConcLevels, ConcInputs)
              \/ Logf(t, ConcLevels, {"text"})
              \/ Logln(t, ConcLevels, {"text"})
              \/ LogWhen(t, ConcLevels, ConcInputs)
              \/ Send(t, ConcInputs)
              \/ EmergencyPanic(t, ConcInputs)
              \/ EmergencyFatal(t, ConcInputs)
              \/ SetName(t, ConcNames)
              \/ SetLevel(t, ConcInfos)
              \/ Name(t)
              \/ GetSender(t)
              \/ SetSender(t)
              \/ Step(t)
        \/ /\ impl = Nil
           /\ \/ SetSenderNil(t)
              \/ NilSenderCall(t)
              \/ NilGetSender(t)
              \/ Return(t)

SpecConstruct == InitConstruct /\ [][NextConstruct]_vars

(***************************************************************************)
(* Senders used directly: a testing sender (1), an annotating wrapper      *)
(* around it (2) and an interceptor around the wrapper (3).  SetName,      *)
(* SetLevel, SetErrorHandler and Close are called on any of the three.     *)
(***************************************************************************)
WrapperIds == {2, 3}

Handlers == {"default", "h"}

DirectInfos ==
    {LevelInfo(Debug, Error), LevelInfo(Invalid, Error),
     LevelInfo(Notice, Emergency)}

InitDirect ==
    /\ impl = 3
    /\ defaultLevel = Info
    /\ \E closeErr \in BOOLEAN :
          senders = [id \in SenderIds |->
              CASE id = 1 -> NewSender("a", LevelInfo(Info, Info), closeErr)
                [] id = 2 -> NewAnnotatingSender(1, {"k"})
                [] OTHER -> NewInterceptor(2, TRUE)]
    /\ LoggerIdle
    /\ ComposerIdle

\* One call on the sender s, which returns at once.
Direct(t, c, S) ==
    /\ CanBegin(t)
    /\ call' = [call EXCEPT ![t] = c]
    /\ senders' = S
    /\ ncalls' = ncalls + 1
    /\ UNCHANGED <<composerVars, impl, defaultLevel, mu, pc, exited>>

DirectSetName(t) ==
    \E s \in SenderIds, n \in ConcNames :
        Direct(t, [NoCall EXCEPT !.op = "SetName", !.s = s, !.n = n],
               SenderSetName(senders, s, n))

DirectSetLevel(t) ==
    \E s \in SenderIds, info \in DirectInfos :
        Direct(t, [NoCall EXCEPT !.op = "SetLevel", !.s = s, !.info = info,
                                 !.err = SenderSetLevelErr(senders, s, info)],
               SenderSetLevel(senders, s, info))

DirectSetErrorHandler(t) ==
    \E s \in SenderIds, h \in Handlers :
        Direct(t, [NoCall EXCEPT !.op = "SetErrorHandler", !.s = s, !.n = h],
               SenderSetErrorHandler(senders, s, h))

DirectClose(t) ==
    \E s \in SenderIds :
        Direct(t, [NoCall EXCEPT !.op = "Close", !.s = s,
                                 !.err = SenderCloseErr(senders, s)],
               SenderClose(senders, s))

NextDirect ==
    \E t \in SeqThreads :
        \/ DirectSetName(t)
        \/ DirectSetLevel(t)
        \/ DirectSetErrorHandler(t)
        \/ DirectClose(t)

SpecDirect == InitDirect /\ [][NextDirect]_vars

(***************************************************************************)
(* Configuration.  The sender constructors NewTwitterLogger and            *)
(* NewDesktopNotify are called with valid and invalid levels (and a        *)
(* twitter client whose Verify fails or succeeds); the logger is built     *)
(* with MakeGrip on a sender whose level is set, or on one that was built  *)
(* without a level (a Base with the zero LevelInfo, as the mocked twitter  *)
(* sender of the tests), and is reconfigured with SetLevel and SetSender.  *)
(***************************************************************************)
ConstructorInfos ==
    {LevelInfo(Trace, Trace), LevelInfo(Invalid, Invalid),
     LevelInfo(Invalid, Info), LevelInfo(Debug, Invalid)}

\* The sender a successful constructor returns (any sender that is not nil).
Constructed == 3

\* NewTwitterLogger: SetLevel(l), then Verify; (nil, err) if either fails.
NewTwitterLoggerCall(t) ==
    \E l \in ConstructorInfos, verifyErr \in BOOLEAN :
        LET bad == SenderSetLevelErr(senders, Constructed, l) \/ verifyErr
        IN  Begin(t, "ret",
                  [NoCall EXCEPT !.op = "NewTwitterLogger", !.info = l,
                                 !.err = bad,
                                 !.gotSender = IF bad THEN Nil
                                               ELSE Constructed])

\* NewDesktopNotify: SetLevel(l); (nil, err) if it fails.
NewDesktopNotifyCall(t) ==
    \E l \in ConstructorInfos :
        LET bad == SenderSetLevelErr(senders, Constructed, l)
        IN  Begin(t, "ret",
                  [NoCall EXCEPT !.op = "NewDesktopNotify", !.info = l,
                                 !.err = bad,
                                 !.gotSender = IF bad THEN Nil
                                               ELSE Constructed])

InitConfig ==
    /\ impl = 1
    /\ defaultLevel = Info
    /\ \E l \in {LevelInfo(Info, Info), LevelInfo(Invalid, Invalid)} :
          senders = InitSenders(l)
    /\ LoggerIdle
    /\ ComposerIdle

ConfigInfos ==
    {LevelInfo(Invalid, Error), LevelInfo(Debug, Invalid),
     LevelInfo(Debug, Error)}

NextConfig ==
    \E t \in SeqThreads :
        \/ NewTwitterLoggerCall(t)
        \/ NewDesktopNotifyCall(t)
        \/ Log(t, ConcLevels, ConcInputs)
        \/ Logf(t, ConcLevels, {"text"})
        \/ Logln(t, ConcLevels, {"text"})
        \/ LogWhen(t, ConcLevels, ConcInputs)
        \/ Send(t, ConcInputs)
        \/ EmergencyPanic(t, ConcInputs)
        \/ EmergencyFatal(t, ConcInputs)
        \/ SetName(t, ConcNames)
        \/ SetLevel(t, ConfigInfos)
        \/ Name(t)
        \/ GetSender(t)
        \/ SetSender(t)
        \/ Step(t)

SpecConfig == InitConfig /\ [][NextConfig]_vars

(***************************************************************************)
(* The logger's name.  One thread sets names (the empty string and the     *)
(* name of a sender that is installed later among them), reads the name    *)
(* and swaps senders that were constructed under names of their own.       *)
(***************************************************************************)
Names == {"n", "", "b"}

NextName ==
    \E t \in SeqThreads :
        \/ Log(t, ConcLevels, ConcInputs)
        \/ Logf(t, ConcLevels, {"text"})
        \/ Logln(t, ConcLevels, {"text"})
        \/ LogWhen(t, ConcLevels, ConcInputs)
        \/ Send(t, ConcInputs)
        \/ EmergencyPanic(t, ConcInputs)
        \/ EmergencyFatal(t, ConcInputs)
        \/ SetName(t, Names)
        \/ SetLevel(t, ConcInfos)
        \/ Name(t)
        \/ GetSender(t)
        \/ SetSender(t)
        \/ Step(t)

SpecName == Init /\ [][NextName]_vars

(***************************************************************************)
(* The package-level functions.  Each calls the method of the same name on *)
(* the package's logger std.  Here std and a journaler of its own, both    *)
(* made by NewGrip, stand side by side on two equally configured senders:  *)
(* thread 2 calls a method of the journaler, thread 1 the package-level    *)
(* function of that name with the same arguments, and each waits for the   *)
(* other before it returns.  Neither logger is given another sender, so    *)
(* the two Grip values differ in impl alone: impl is the field of the      *)
(* logger whose code runs next.                                            *)
(***************************************************************************)
PkgLog(t, levels, inputs) == Log(t, levels, inputs)

\* A variant that logs at Info whatever level it is given.
PkgLogfAtInfo(t, levels, bodies) == Logf(t, {Info}, bodies)

PkgLogf(t, levels, bodies) == Logf(t, levels, bodies)

PkgLogln(t, levels, bodies) == Logln(t, levels, bodies)

PkgLogWhen(t, levels, inputs) == LogWhen(t, levels, inputs)

stdSender == 1

loggingSender == 2

StdInfos ==
    {LevelInfo(Trace, Trace), LevelInfo(Info, Warning),
     LevelInfo(Debug, Emergency)}

SetupTest ==
    /\ impl = loggingSender
    /\ defaultLevel = Invalid
    /\ \E l \in StdInfos :
          senders = [id \in SenderIds |->
                        CASE id = stdSender -> NewSender("grip", l, FALSE)
                          [] id = loggingSender -> NewSender("test", l, FALSE)
                          [] OTHER -> NewSender("c", l, FALSE)]

InitStd == SetupTest /\ LoggerIdle /\ ComposerIdle

\* The journaler's method is called, if there are calls left for the pair.
MethodCall ==
    /\ pc[1] = "idle"
    /\ ncalls + 1 < MaxCalls
    /\ \/ Log(2, Priorities, SeqInputs)
       \/ Logf(2, Priorities, {"text", "empty"})
       \/ Logln(2, Priorities, {"text", "empty"})
       \/ LogWhen(2, WhenLevels, WhenInputs)

\* The package-level function is called with the method's arguments.
PackageCall ==
    /\ pc[2] = "rlock"
    /\ LET c == call[2]
       IN  \/ c.op = "Log" /\ PkgLog(1, {c.lvl}, {c.v})
           \/ c.op = "Logf" /\ PkgLogf(1, {c.lvl}, {c.msg.body})
           \/ c.op = "Logln" /\ PkgLogln(1, {c.lvl}, {c.msg.body})
           \/ /\ c.op = "LogWhen"
              /\ PkgLogWhen(1, {c.lvl}, {c.v})
              /\ call'[1].msg.cond = c.msg.cond

\* The code of std.
StdStep ==
    /\ impl = stdSender
    /\ \/ RLock(1)
       \/ send(1)
       \/ pc[2] = "runlock" /\ RUnlock(1)

\* The code of the journaler.
LoggerStep ==
    /\ impl = loggingSender
    /\ \/ pc[1] # "idle" /\ RLock(2)
       \/ send(2)
       \/ pc[1] = "idle" /\ RUnlock(2)

\* The other logger's code runs next.
Switch ==
    /\ impl' = IF impl = stdSender THEN loggingSender ELSE stdSender
    /\ UNCHANGED <<composerVars, defaultLevel, senders, mu, pc, call, ncalls,
                   exited>>

NextStd == MethodCall \/ PackageCall \/ StdStep \/ LoggerStep \/ Switch

SpecStd == InitStd /\ [][NextStd]_vars

(***************************************************************************)
(* SetSender with senders the logger already uses.  The caller holds the   *)
(* logger's sender (GetSender returns it) and an annotating wrapper it has *)
(* built around that sender, and passes any sender to SetSender: the       *)
(* current one, the wrapper, or another one.                               *)
(***************************************************************************)
InitReuse ==
    /\ impl = 1
    /\ defaultLevel = Info
    /\ senders = [id \in SenderIds |->
          CASE id = 1 -> NewSender("a", LevelInfo(Info, Info), FALSE)
            [] id = 2 -> NewAnnotatingSender(1, {"k"})
            [] OTHER -> NewSender("c", LevelInfo(Notice, Emergency), FALSE)]
    /\ LoggerIdle
    /\ ComposerIdle

SetSenderAny(t) ==
    \E s \in SenderIds :
        Begin(t, "lock", [NoCall EXCEPT !.op = "SetSender", !.s = s])

NextReuse ==
    \E t \in SeqThreads :
        \/ Log(t, ConcLevels, ConcInputs)
        \/ Logf(t, ConcLevels, {"text"})
        \/ Logln(t, ConcLevels, {"text"})
        \/ LogWhen(t, ConcLevels, ConcInputs)
        \/ Send(t, ConcInputs)
        \/ EmergencyPanic(t, ConcInputs)
        \/ EmergencyFatal(t, ConcInputs)
        \/ SetName(t, ConcNames)
        \/ SetLevel(t, ConcInfos)
        \/ Name(t)
        \/ GetSender(t)
        \/ SetSenderNil(t)
        \/ SetSenderAny(t)
        \/ Step(t)

SpecReuse == InitReuse /\ [][NextReuse]_vars

(***************************************************************************)
(* The logger under fair scheduling.  Two threads call Log, Send,          *)
(* SetSender, SetName, SetLevel, Name and GetSender; a thread that can     *)
(* take the next step of its call eventually takes it.  Every sender       *)
(* operation is one step, so it terminates and calls nothing on the        *)
(* logger.                                                                 *)
(***************************************************************************)
StepLive(t) ==
    \/ RLock(t) \/ RUnlock(t) \/ Return(t)
    \/ send(t)
    \/ SetNameCall(t) \/ SetLevelRead(t) \/ SetLevelCall(t) \/ GetCall(t)
    \/ SetSenderLock(t) \/ SetSenderLocked(t) \/ SetSenderCopyLevel(t)
    \/ SetSenderClose(t) \/ SetSenderInstall(t) \/ SetSenderUnlock(t)

NextLive ==
    \E t \in Threads :
        \/ Log(t, {Emergency}, {StringInput("text")})
        \/ Send(t, {StringInput("text")})
        \/ SetName(t, ConcNames)
        \/ SetLevel(t, ConcInfos)
        \/ Name(t)
        \/ GetSender(t)
        \/ SetSender(t)
        \/ StepLive(t)

Fairness == \A t \in Threads : WF_vars(StepLive(t))

SpecLive == Init /\ [][NextLive]_vars /\ Fairness

(***************************************************************************)
(* Panics and the lock.  Two threads call EmergencyPanic, Log and          *)
(* SetSender under fair scheduling; a caller recovers the panic and goes   *)
(* on.                                                                     *)
(***************************************************************************)
StepRecover(t) ==
    \/ RLock(t) \/ RUnlock(t) \/ Return(t)
    \/ send(t)
    \/ sendAbortCheck(t) \/ sendAbortDeliver(t) \/ sendPanicAbort(t)
    \/ SetSenderLock(t) \/ SetSenderLocked(t) \/ SetSenderCopyLevel(t)
    \/ SetSenderClose(t) \/ SetSenderInstall(t) \/ SetSenderUnlock(t)

NextRecover ==
    \E t \in Threads :
        \/ EmergencyPanic(t, ConcInputs)
        \/ Log(t, ConcLevels, ConcInputs)
        \/ SetSender(t)
        \/ StepRecover(t)

SpecRecover ==
    Init /\ [][NextRecover]_vars /\ \A t \in Threads : WF_vars(StepRecover(t))

(***************************************************************************)
(* One composer sent again and again.  The caller keeps the composer and   *)
(* calls Send on two annotating wrappers of one testing sender; the        *)
(* wrappers share the key k.                                               *)
(***************************************************************************)
ResendComposers ==
    {NewFields(Info, "text"), NewFields(Info, "empty"),
     NewDefaultMessage(Debug, "text"),
     NewFieldsProducerMessage(Info, TRUE, "text")}

InitResend ==
    /\ impl = 1
    /\ defaultLevel = Info
    /\ \E l \in {LevelInfo(Info, Info), LevelInfo(Debug, Debug)} :
          senders = [id \in SenderIds |->
              CASE id = 1 -> NewSender("a", l, FALSE)
                [] id = 2 -> NewAnnotatingSender(1, {"k"})
                [] OTHER -> NewAnnotatingSender(1, {"k", "j"})]
    /\ LoggerIdle
    /\ composer \in ResendComposers
    /\ policy = LevelInfo(Invalid, Invalid)
    /\ accessed = {}
    /\ returned = NoReturn
    /\ arg = NoArg

\* s.Send(composer) on a wrapper s.
DirectSend(t) ==
    \E s \in WrapperIds, order \in Orders :
        LET r == SenderSend(senders, s, composer, order)
        IN  /\ CanBegin(t)
            /\ call' = [call EXCEPT ![t] =
                   [NoCall EXCEPT !.s = s, !.delivered = r.delivered,
                                  !.op = "Send", !.msg = r.m, !.handed = 1]]
            /\ senders' = r.S
            /\ composer' = r.m
            /\ ncalls' = ncalls + 1
            /\ UNCHANGED <<impl, defaultLevel, mu, pc, exited, policy,
                           accessed, returned, arg>>

NextResend ==
    \E t \in SeqThreads :
        \/ DirectSend(t)
        \/ DirectSetLevel(t)

SpecResend == InitResend /\ [][NextResend]_vars

(***************************************************************************)
(* The aborting calls beside SetSender: two threads call EmergencyPanic,   *)
(* EmergencyFatal and SetSender in every interleaving.                     *)
(***************************************************************************)
\* A value that is logged and one that is not.
AbortInputs == {StringInput("text"), StringInput("empty")}

StepAbort(t) ==
    \/ RLock(t) \/ RUnlock(t) \/ Return(t)
    \/ sendAbortCheck(t) \/ sendAbortDeliver(t)
    \/ sendPanicAbort(t) \/ sendFatalExit(t)
    \/ SetSenderLock(t) \/ SetSenderLocked(t) \/ SetSenderCopyLevel(t)
    \/ SetSenderClose(t) \/ SetSenderInstall(t) \/ SetSenderUnlock(t)

NextAbort ==
    \E t \in Threads :
        \/ EmergencyPanic(t, AbortInputs)
        \/ EmergencyFatal(t, AbortInputs)
        \/ SetSender(t)
        \/ StepAbort(t)

SpecAbort == Init /\ [][NextAbort]_vars

(***************************************************************************)
(* The logger on an annotating wrapper:                                    *)
(* MakeGrip(NewAnnotatingSender(MakeTesting(...), annotations)), called by *)
(* one thread with composers that carry some of the wrapper's keys.        *)
(***************************************************************************)
InitAnnotating ==
    /\ impl = 2
    /\ defaultLevel = Info
    /\ \E annotations \in SUBSET Keys :
          senders = [id \in SenderIds |->
              CASE id = 1 -> NewSender("a", LevelInfo(Info, Info), FALSE)
                [] id = 2 -> NewAnnotatingSender(1, annotations)
                [] OTHER -> NewSender("c", LevelInfo(Notice, Emergency), FALSE)]
    /\ LoggerIdle
    /\ ComposerIdle

AnnotLevels == {Debug, Info, Emergency}

AnnotInputs ==
    {ComposerInput(NewConcrete("fields", Info, "text", {})),
     ComposerInput(NewConcrete("fields", Info, "text", {"k"})),
     ComposerInput(NewConcrete("fields", Info, "text", {"k", "j"})),
     ComposerInput(NewConcrete("fields", Info, "empty", {"k"})),
     FieldsFnInput(TRUE, "text"), StringInput("text")}

AnnotInfos == {LevelInfo(Invalid, Debug), LevelInfo(Invalid, Emergency)}

NextAnnot ==
    \E t \in SeqThreads :
        \/ Log(t, AnnotLevels, AnnotInputs)
        \/ Logf(t, AnnotLevels, {"text"})
        \/ Logln(t, AnnotLevels, {"text"})
        \/ LogWhen(t, AnnotLevels, AnnotInputs)
        \/ Send(t, AnnotInputs)
        \/ EmergencyPanic(t, AnnotInputs)
        \/ EmergencyFatal(t, AnnotInputs)
        \/ SetName(t, ConcNames)
        \/ SetLevel(t, AnnotInfos)
        \/ Name(t)
        \/ GetSender(t)
        \/ SetSender(t)
        \/ Step(t)

SpecAnnot == InitAnnotating /\ [][NextAnnot]_vars

(***************************************************************************)
(* The logger on an intercepting wrapper around a testing sender           *)
(* (NewInterceptor(base, filter), with base at Threshold Info and Default  *)
(* Debug), on a twitter sender whose client fails or succeeds, or on a     *)
(* desktop notification sender (MakeDesktopNotify's levels) whose          *)
(* notifications fail or succeed, called by one thread.                    *)
(***************************************************************************)
InitWrapped ==
    /\ impl \in {2, 3}
    /\ defaultLevel = Info
    /\ \E sendErr \in BOOLEAN :
          \E backend \in
                {NewTwitterLogger("mock-twitter", LevelInfo(Trace, Trace),
                                  sendErr),
                 NewDesktopNotify("d", LevelInfo(Debug, Trace), sendErr)} :
              senders = [id \in SenderIds |->
                  CASE id = 1 -> NewSender("a", LevelInfo(Debug, Info), FALSE)
                    [] id = 2 -> NewInterceptor(1, TRUE)
                    [] OTHER -> backend]
    /\ LoggerIdle
    /\ ComposerIdle

WrappedLevels == {Trace, Info, Emergency}

WrappedInputs ==
    {StringInput("text"), StringInput("empty"), FieldsFnInput(TRUE, "text")}

WrappedInfos == {LevelInfo(Invalid, Emergency)}

NextWrapped ==
    \E t \in SeqThreads :
        \/ Log(t, WrappedLevels, WrappedInputs)
        \/ Logf(t, WrappedLevels, {"text"})
        \/ Logln(t, WrappedLevels, {"text"})
        \/ LogWhen(t, WrappedLevels, WrappedInputs)
        \/ Send(t, WrappedInputs)
        \/ EmergencyPanic(t, WrappedInputs)
        \/ EmergencyFatal(t, WrappedInputs)
        \/ SetName(t, ConcNames)
        \/ SetLevel(t, WrappedInfos)
        \/ Name(t)
        \/ GetSender(t)
        \/ SetSender(t)
        \/ Step(t)

SpecWrapped == InitWrapped /\ [][NextWrapped]_vars

(***************************************************************************)
(* The logger on an interceptor that was constructed with a function or    *)
(* with nil, around a testing sender, called by one thread.                *)
(***************************************************************************)
InitIntercept ==
    /\ impl = 2
    /\ defaultLevel = Info
    /\ \E ifn \in BOOLEAN :
          senders = [id \in SenderIds |->
              CASE id = 1 -> NewSender("a", LevelInfo(Debug, Info), FALSE)
                [] id = 2 -> NewInterceptor(1, ifn)
                [] OTHER -> NewSender("c", LevelInfo(Notice, Emergency), FALSE)]
    /\ LoggerIdle
    /\ ComposerIdle

NextIntercept ==
    \E t \in SeqThreads :
        \/ Log(t, WrappedLevels, WrappedInputs)
        \/ Logf(t, WrappedLevels, {"text"})
        \/ Logln(t, WrappedLevels, {"text"})
        \/ LogWhen(t, WrappedLevels, WrappedInputs)
        \/ Send(t, WrappedInputs)
        \/ EmergencyPanic(t, WrappedInputs)
        \/ EmergencyFatal(t, WrappedInputs)
        \/ SetName(t, ConcNames)
        \/ SetLevel(t, WrappedInfos)
        \/ Name(t)
        \/ GetSender(t)
        \/ SetSender(t)
        \/ Step(t)

SpecIntercept == InitIntercept /\ [][NextIntercept]_vars

(***************************************************************************)
(* A composer in the hands of one caller, who calls its methods in any     *)
(* order, asks a level policy about it and sends it to a testing sender    *)
(* at that policy.  A call that ends in a panic is recovered by the caller.*)
(***************************************************************************)
Composers ==
    {NewFieldsProducerMessage(Invalid, TRUE, "text"),
     NewFieldsProducerMessage(Info, TRUE, "empty"),
     NewFieldsProducerMessage(Invalid, FALSE, "empty"),
     NewComposerProducerMessage(Invalid, TRUE, "text", Warning),
     NewComposerProducerMessage(Invalid, TRUE, "empty", Invalid),
     NewComposerProducerMessage(Info, TRUE, "nil", Invalid),
     NewComposerProducerMessage(Invalid, FALSE, "empty", Invalid),
     NewErrorProducerMessage(Invalid, TRUE, "text"),
     NewErrorProducerMessage(Info, TRUE, "empty"),
     NewErrorProducerMessage(Invalid, FALSE, "empty"),
     NewFields(Invalid, "text"), NewFields(Info, "empty"),
     NewDefaultMessage(Info, "text")}

Policies ==
    {LevelInfo(d, th) : d \in {Debug, Alert}, th \in {Notice, Emergency}}

AccessKeys == {"k"}

InitComposer ==
    /\ MakeGrip
    /\ LoggerIdle
    /\ composer \in Composers
    /\ policy \in Policies
    /\ accessed = {}
    /\ returned = NoReturn
    /\ arg = NoArg

\* One call on the composer: m is the composer after it, ret what it returns.
Access(ops, m, ret) ==
    /\ composer' = m
    /\ accessed' = accessed \cup ops
    /\ returned' = ret
    /\ UNCHANGED <<loggerVars, policy, arg>>

CallString ==
    Access({"String"}, StringEff(composer),
           [NoReturn EXCEPT !.op = "String", !.text = String(composer),
                            !.panic = StringEff(composer).panicked])

CallRaw ==
    Access({"Raw"}, RawEff(composer),
           [NoReturn EXCEPT !.op = "Raw", !.text = Content(RawEff(composer)),
                            !.panic = RawEff(composer).panicked])

CallLoggable ==
    Access({"Loggable"}, LoggableEff(composer),
           [NoReturn EXCEPT !.op = "Loggable", !.bool = Loggable(composer)])

CallAnnotate ==
    \E k \in AccessKeys :
        Access({"Annotate"}, AnnotateEff(composer, k),
               [NoReturn EXCEPT !.op = "Annotate",
                                !.bool = AnnotateErr(composer, k),
                                !.panic = AnnotateEff(composer, k).panicked])

CallPriority ==
    Access({"Priority"}, composer,
           [NoReturn EXCEPT !.op = "Priority", !.level = Priority(composer)])

CallSetPriority ==
    \E p \in Priorities :
        Access({"SetPriority"}, SetPriorityEff(composer, p),
               [NoReturn EXCEPT !.op = "SetPriority",
                                !.bool = SetPriorityErr(composer, p)])

\* policy.ShouldLog(composer)
CallShouldLog ==
    Access({"Loggable"}, ShouldLogEff(policy, composer),
           [NoReturn EXCEPT !.op = "ShouldLog",
                            !.bool = ShouldLog(policy, composer)])

\* Send(composer) on a testing sender whose Level() is policy.
CallSend ==
    LET r == testLoggerSend(<<NewSender("a", policy, FALSE)>>, 1, composer)
    IN  Access({"Loggable"} \cup (IF r.delivered = 1 THEN {"String"} ELSE {}),
               r.m,
               [NoReturn EXCEPT !.op = "Send", !.bool = (r.delivered = 1)])

NextComposer ==
    \/ CallString
    \/ CallRaw
    \/ CallLoggable
    \/ CallAnnotate
    \/ CallPriority
    \/ CallSetPriority
    \/ CallShouldLog
    \/ CallSend

SpecComposer == InitComposer /\ [][NextComposer]_vars

(***************************************************************************)
(* A value in the hands of one caller, who converts it to a composer with  *)
(* ConvertToComposer or ConvertToComposerWithLevel at some priority, then  *)
(* calls the composer's methods, asks a level policy about it and sends it *)
(* to a testing sender at that policy.                                     *)
(***************************************************************************)
\* The nil values: the nil interface (a nil error is one) and a nil function
\* of each lazy shape.
NilValues ==
    {NilInput, FieldsFnInput(FALSE, "empty"),
     ComposerFnInput(FALSE, "empty", Invalid), ErrorFnInput(FALSE, "empty")}

FnValues ==
    {FieldsFnInput(TRUE, "text"), FieldsFnInput(TRUE, "empty"),
     ComposerFnInput(TRUE, "text", Info), ComposerFnInput(TRUE, "nil", Invalid),
     ErrorFnInput(TRUE, "text"), ErrorFnInput(TRUE, "empty")}

ComposerValues ==
    {ComposerInput(NewFields(Alert, "text")),
     ComposerInput(NewFields(Invalid, "text")),
     ComposerInput(NewDefaultMessage(Debug, "empty")),
     ComposerInput(NewFieldsProducerMessage(Invalid, TRUE, "text")),
     ComposerInput(NewErrorProducerMessage(Warning, TRUE, "text"))}

ConvInputs ==
    NilValues \cup FnValues \cup ComposerValues
        \cup {StringInput("text"), StringInput("empty"), ErrorInput,
              FieldsInput("text"), FieldsInput("empty"), OtherInput}

ConvPriorities == {Invalid, Trace, Info, Emergency}

InitConvert ==
    /\ MakeGrip
    /\ LoggerIdle
    /\ composer = NoMsg
    /\ policy \in Policies
    /\ accessed = {}
    /\ returned = NoReturn
    /\ arg = NoArg

\* ConvertToComposer(p, v) or ConvertToComposerWithLevel(p, v)
Convert ==
    /\ ~arg.converted
    /\ \E p \in ConvPriorities, v \in ConvInputs, overRideLevel \in BOOLEAN :
          /\ composer' = convert(p, v, overRideLevel)
          /\ arg' = [p |-> p, overRideLevel |-> overRideLevel, v |-> v,
                     converted |-> TRUE]
    /\ UNCHANGED <<loggerVars, policy, accessed, returned>>

NextConvert ==
    \/ Convert
    \/ /\ arg.converted
       /\ \/ CallString
          \/ CallRaw
          \/ CallLoggable
          \/ CallAnnotate
          \/ CallPriority
          \/ CallShouldLog
          \/ CallSend

SpecConvert == InitConvert /\ [][NextConvert]_vars

(***************************************************************************)
(* The operations of a composer beside Raw and Annotate: String, Loggable, *)
(* Priority, SetPriority, IsStructured and the error methods of the error  *)
(* producer, in any order.                                                 *)
(***************************************************************************)
AccessorComposers ==
    {NewFieldsProducerMessage(Invalid, TRUE, "text"),
     NewComposerProducerMessage(Invalid, TRUE, "text", Warning),
     NewErrorProducerMessage(Invalid, TRUE, "text"),
     NewErrorProducerMessage(Info, TRUE, "empty"),
     NewErrorProducerMessage(Invalid, FALSE, "empty"),
     NewDefaultMessage(Info, "text")}

Verbs == {"+v", "s", "d"}

InitAccessors ==
    /\ MakeGrip
    /\ LoggerIdle
    /\ composer \in AccessorComposers
    /\ policy = LevelInfo(Debug, Notice)
    /\ accessed = {}
    /\ returned = NoReturn
    /\ arg = NoArg

CallIsStructured ==
    Access({"IsStructured"}, IsStructuredEff(composer),
           [NoReturn EXCEPT !.op = "IsStructured",
                            !.bool = IsStructured(composer),
                            !.panic = IsStructuredEff(composer).panicked])

CallCause ==
    /\ composer.kind = "errorProducer"
    /\ Access({"Cause"}, CauseEff(composer),
              [NoReturn EXCEPT !.op = "Cause", !.text = Cause(composer),
                               !.panic = CauseEff(composer).panicked])

CallUnwrap ==
    /\ composer.kind = "errorProducer"
    /\ Access({"Unwrap"}, UnwrapEff(composer),
              [NoReturn EXCEPT !.op = "Unwrap", !.text = Cause(composer),
                               !.panic = UnwrapEff(composer).panicked])

CallError ==
    /\ composer.kind = "errorProducer"
    /\ Access({"Error"}, ErrorEff(composer),
              [NoReturn EXCEPT !.op = "Error",
                               !.text = errorProducerError(composer),
                               !.panic = ErrorEff(composer).panicked])

CallFormat ==
    /\ composer.kind = "errorProducer"
    /\ \E verb \in Verbs :
          Access({"Format"}, FormatEff(composer, verb),
                 [NoReturn EXCEPT !.op = "Format",
                     !.panic = FormatEff(composer, verb).panicked])

NextAccessors ==
    \/ CallString
    \/ CallLoggable
    \/ CallPriority
    \/ CallSetPriority
    \/ CallIsStructured
    \/ CallCause
    \/ CallUnwrap
    \/ CallError
    \/ CallFormat

SpecAccessors == InitAccessors /\ [][NextAccessors]_vars

\* The methods that need the content of a composer.
Resolving == {"String", "Raw", "Loggable", "Annotate"}

(***************************************************************************)
(* One lazy composer in the hands of two threads, each calling String,     *)
(* Raw, Loggable or Annotate.  resolve is a test of cached followed by the *)
(* call of the function and the assignment to cached, with no lock: the    *)
(* threads interleave between the test and the assignment.  A frame's msg  *)
(* is the composer as the accessor read it; its calls field tells which    *)
(* result of the function the cached composer was built from.              *)
(***************************************************************************)
SharedComposers ==
    {NewFieldsProducerMessage(Info, TRUE, "text"),
     NewComposerProducerMessage(Info, TRUE, "text", Warning),
     NewErrorProducerMessage(Info, TRUE, "text")}

InitShared ==
    /\ MakeGrip
    /\ LoggerIdle
    /\ composer \in SharedComposers
    /\ policy = LevelInfo(Info, Info)
    /\ accessed = {}
    /\ returned = NoReturn
    /\ arg = NoArg

\* A thread calls one of the four accessors.
SharedAccess(t) ==
    /\ CanBegin(t)
    /\ \E op \in Resolving :
          /\ call' = [call EXCEPT ![t] = [NoCall EXCEPT !.op = op]]
          /\ accessed' = accessed \cup {op}
    /\ pc' = [pc EXCEPT ![t] = "resolve"]
    /\ ncalls' = ncalls + 1
    /\ UNCHANGED <<impl, defaultLevel, senders, mu, exited, composer, policy,
                   returned, arg>>

\* if cached == nil
SharedTest(t) ==
    /\ At(t, "resolve")
    /\ pc' = [pc EXCEPT ![t] = IF composer.resolved THEN "cached"
                               ELSE "produce"]
    /\ UNCHANGED <<impl, defaultLevel, senders, mu, call, ncalls, exited,
                   composerVars>>

\* cached = <the composer made of the function's result>
SharedProduce(t) ==
    /\ At(t, "produce")
    /\ composer' = resolve([composer EXCEPT !.resolved = FALSE])
    /\ pc' = [pc EXCEPT ![t] = "cached"]
    /\ UNCHANGED <<impl, defaultLevel, senders, mu, call, ncalls, exited,
                   policy, accessed, returned, arg>>

\* return cached.<accessor>()
SharedRead(t) ==
    /\ At(t, "cached")
    /\ call' = [call EXCEPT ![t].msg = composer]
    /\ pc' = [pc EXCEPT ![t] = "ret"]
    /\ UNCHANGED <<impl, defaultLevel, senders, mu, ncalls, exited,
                   composerVars>>

NextShared ==
    \E t \in Threads :
        \/ SharedAccess(t)
        \/ SharedTest(t)
        \/ SharedProduce(t)
        \/ SharedRead(t)
        \/ Return(t)

SpecShared == InitShared /\ [][NextShared]_vars

(***************************************************************************)
(* Claims about SetSender under concurrent use.                            *)
(***************************************************************************)
\* A logging call that holds the read lock and is about to use g.impl.
UsesSender(t) == pc[t] \in {"send", "check", "deliver"}

\* A SetSender between its first write and its unlock.
Swapping(t) == pc[t] \in {"copylevel", "close", "install", "unlock"}

C2_SetSenderCopies ==
    \A t \in Threads :
        (pc[t] = "unlock" /\ ~call[t].err) =>
            /\ SenderName(senders, call[t].s) = call[t].pre.name
            /\ SenderLevel(senders, call[t].s) = call[t].pre.level
            /\ senders[call[t].pre.impl].closeCalls = 1
            /\ senders[call[t].pre.impl].closeCalls
                   = call[t].pre.closeCalls + 1
            /\ impl = call[t].s
            /\ impl # call[t].pre.impl

\* A successful swap to a sender constructed with another name and level,
\* after SetName and SetLevel changed the old sender's.
C2_Witness ==
    \E t \in Threads :
        /\ pc[t] = "unlock"
        /\ ~call[t].err
        /\ call[t].s = 3
        /\ call[t].pre.name = "n"
        /\ call[t].pre.level.Threshold = Error

\* C3: SetSender(nil) returns an error and changes neither the logger's
\* sender nor any sender's state (name, level, closed).
C3_SetSenderNil ==
    [][\A t \in Threads :
          (pc[t] = "idle" /\ pc'[t] = "ret" /\ call'[t].op = "SetSender")
              => (call'[t].err /\ impl' = impl /\ senders' = senders)]_vars

\* SetSender(nil) has returned its error on a logger whose sender is open.
C3_Witness ==
    \E t \in Threads :
        /\ pc[t] = "ret"
        /\ call[t].op = "SetSender"
        /\ call[t].s = Nil
        /\ call[t].err
        /\ ~senders[impl].closed

(***************************************************************************)
(* Claims about composers and the level policy.                            *)
(***************************************************************************)
\* The composer has content to log, whatever has been resolved so far: its
\* condition holds and its (lazily produced) content is not empty.
HasContent(m) ==
    /\ m.cond
    /\ IF IsLazy(m) THEN m.hasFn /\ m.body = "text" ELSE m.body = "text"

\* The decision table of the level policy l for the composer m.
Accepts(l, m) ==
    LET effective == IF m.level = Invalid THEN l.Default ELSE m.level
    IN  /\ HasContent(m)
        /\ effective >= l.Threshold \/ effective = Emergency

\* C4: for a lazy producer in one caller's hands, the wrapped function runs
\* at most once over any sequence of String, Raw, Loggable, Annotate,
\* Priority and SetPriority calls, and not at all while none of String, Raw,
\* Loggable and Annotate has been called; once the composer is resolved,
\* every later call keeps the cached composer and answers from it.
C4_LazyAtMostOnce ==
    [][IsLazy(composer) =>
          /\ composer'.calls <= 1
          /\ (accessed' \cap Resolving = {}) =>
                (composer'.calls = 0 /\ ~composer'.resolved)
          /\ composer.resolved =>
                /\ composer'.resolved
                /\ composer'.calls = composer.calls
                /\ composer'.cbody = composer.cbody
                /\ (returned'.op \in {"String", "Raw"}) =>
                      returned'.text = composer.cbody
                /\ (returned'.op = "Loggable") =>
                      returned'.bool = (composer.hasFn
                                            /\ composer.cbody = "text")]_vars

\* A composer producer whose function has run once, after every method has
\* been called on it.
C4_Witness ==
    /\ composer.kind = "composerProducer"
    /\ composer.calls = 1
    /\ Resolving \cup {"Priority", "SetPriority"} \subseteq accessed

\* C6: ShouldLog on a sender's LevelInfo, asked directly or by the sender's
\* Send, accepts a composer exactly when the composer is loggable and its
\* effective priority (its own, or the Default when its own is Invalid) is
\* at or above the Threshold or is Emergency; in particular a loggable
\* composer at a valid priority below the Threshold, other than Emergency,
\* is rejected.
C6_ShouldLogDecision ==
    returned.op \in {"ShouldLog", "Send"} =>
        /\ returned.bool = Accepts(policy, composer)
        /\ (/\ HasContent(composer)
            /\ IsValid(composer.level)
            /\ composer.level < policy.Threshold
            /\ composer.level # Emergency) => ~returned.bool

\* A sender whose Default is above its Threshold has written a lazy
\* composer that has no priority of its own.
C6_Witness ==
    /\ returned.op = "Send"
    /\ returned.bool
    /\ IsLazy(composer)
    /\ composer.level = Invalid
    /\ policy = LevelInfo(Alert, Notice)

(***************************************************************************)
(* Claims about the logging entry points, called by one thread.            *)
(***************************************************************************)
Leveled == {"Log", "Logf", "Logln"}

\* C5 (as stated): LogWhen(false, l, v) never resolves a lazy v and never
\* reaches the sender; with a true condition and a loggable v at or above
\* the threshold the message is logged.
C5_WhenFalseNeverReachesSender ==
    \A t \in SeqThreads :
        (pc[t] = "runlock" /\ call[t].op = "LogWhen") =>
            /\ ~call[t].msg.cond =>
                  /\ call[t].msg.calls = 0
                  /\ ~call[t].msg.resolved
                  /\ call[t].handed = 0
                  /\ call[t].delivered = 0
            /\ (/\ call[t].msg.cond
                /\ HasContent(call[t].msg)
                /\ IsValid(call[t].lvl)
                /\ call[t].lvl >= SenderLevel(senders, impl).Threshold)
                  => call[t].delivered = 1

\* C5 (amended): LogWhen(false, l, v) never resolves a lazy v and the
\* message is never logged (the sender's Send receives it and rejects it);
\* with a true condition and a loggable v at or above the threshold the
\* message is logged.
C5_WhenFalseNeverLogged ==
    \A t \in SeqThreads :
        (pc[t] = "runlock" /\ call[t].op = "LogWhen") =>
            /\ ~call[t].msg.cond =>
                  /\ call[t].msg.calls = 0
                  /\ ~call[t].msg.resolved
                  /\ call[t].delivered = 0
            /\ (/\ call[t].msg.cond
                /\ HasContent(call[t].msg)
                /\ IsValid(call[t].lvl)
                /\ call[t].lvl >= SenderLevel(senders, impl).Threshold)
                  => call[t].delivered = 1

\* LogWhen(false, Emergency, f) with a fields function f has returned: the
\* sender's Send was called with the message.
C5_Witness ==
    \E t \in SeqThreads :
        /\ pc[t] = "runlock"
        /\ call[t].op = "LogWhen"
        /\ ~call[t].msg.cond
        /\ call[t].msg.kind = "fieldsProducer"
        /\ call[t].lvl = Emergency
        /\ call[t].handed = 1

\* C7: whatever threshold the logger's sender has, a loggable message sent
\* with Log, Logf or Logln at Emergency (the Emergency, Emergencyf and
\* Emergencyln methods are these) is delivered, and exactly once.
C7_EmergencyDelivered ==
    \A t \in SeqThreads :
        (/\ pc[t] = "runlock"
         /\ call[t].op \in Leveled
         /\ call[t].lvl = Emergency
         /\ HasContent(call[t].msg))
            => (call[t].handed = 1 /\ call[t].delivered = 1)

\* Logf(Emergency, ...) has been delivered by a sender whose threshold was
\* raised to Emergency.
C7_Witness ==
    \E t \in SeqThreads :
        /\ pc[t] = "runlock"
        /\ call[t].op = "Logf"
        /\ call[t].lvl = Emergency
        /\ call[t].delivered = 1
        /\ SenderLevel(senders, impl) = LevelInfo(Critical, Emergency)

\* C8: a call of Log, Logf or Logln (the methods named after a level are
\* these) at a valid level with a loggable value hands the message to the
\* logger's sender exactly once, and the sender writes exactly one message
\* when the level is at or above its threshold and none when it is below.
C8_LeveledOnce ==
    [][\A t \in SeqThreads :
          (/\ pc[t] = "send"
           /\ pc'[t] = "runlock"
           /\ call[t].op \in Leveled
           /\ IsValid(call[t].lvl)
           /\ HasContent(call[t].msg))
              => /\ call[t].handed = 0
                 /\ call'[t].handed = 1
                 /\ call'[t].delivered = senders'[impl].recorded
                                             - senders[impl].recorded
                 /\ senders'[impl].recorded =
                        senders[impl].recorded
                        + (IF call[t].lvl >= SenderLevel(senders, impl).Threshold
                           THEN 1 ELSE 0)]_vars

\* Log(Debug, f) with a fields function f has returned from a sender at
\* threshold Notice: handed over once, nothing written.
C8_Witness ==
    \E t \in SeqThreads :
        /\ pc[t] = "runlock"
        /\ call[t].op = "Log"
        /\ call[t].lvl = Debug
        /\ call[t].msg.kind = "fieldsProducer"
        /\ call[t].msg.calls = 1
        /\ call[t].handed = 1
        /\ call[t].delivered = 0
        /\ SenderLevel(senders, impl).Threshold = Notice

\* C9: EmergencyPanic and EmergencyFatal abort exactly when the sender's
\* ShouldLog accepts the message; when the abort happens the sender's Send
\* for the message has returned and has written it; a message that is
\* filtered out (one that is not loggable) is neither sent nor followed by
\* an abort.
C9_AbortAfterDelivery ==
    \A t \in SeqThreads :
        call[t].op \in AbortingOps =>
            /\ pc[t] = "abort" => (call[t].accepted /\ call[t].handed = 1)
            /\ call[t].aborted =>
                  /\ call[t].accepted
                  /\ HasContent(call[t].msg)
                  /\ call[t].handed = 1
                  /\ call[t].delivered = 1
            /\ pc[t] = "ret" => call[t].aborted
            /\ pc[t] = "runlock" =>
                  /\ ~call[t].accepted
                  /\ ~HasContent(call[t].msg)
                  /\ ~call[t].aborted
                  /\ call[t].handed = 0
                  /\ call[t].delivered = 0
            /\ (call[t].op = "EmergencyFatal") => (exited <=> call[t].aborted)

\* EmergencyFatal has ended the process after a sender at threshold
\* Emergency wrote the message.
C9_Witness ==
    \E t \in SeqThreads :
        /\ pc[t] = "ret"
        /\ call[t].op = "EmergencyFatal"
        /\ call[t].aborted
        /\ exited
        /\ call[t].delivered = 1
        /\ SenderLevel(senders, impl).Threshold = Emergency

C11_InterceptorEveryMessage ==
    [][\A t \in SeqThreads :
          (/\ pc[t] \in {"send", "deliver"}
           /\ pc'[t] # pc[t]
           /\ senders[impl].kind = "interceptor")
              => LET b == BaseOf(senders, impl)
                     pass == Accepts(SenderLevel(senders, impl), call[t].msg)
                 IN  /\ senders'[impl].filtered = senders[impl].filtered + 1
                     /\ senders'[impl].sawRecorded = senders[b].recorded
                     /\ call'[t].handed = call[t].handed + 1
                     /\ senders'[b].recorded =
                            senders[b].recorded + (IF pass THEN 1 ELSE 0)
                     /\ call'[t].delivered = (IF pass THEN 1 ELSE 0)]_vars

\* Two messages have gone through the interceptor, one of them below the
\* inner sender's threshold: the function ran twice, the inner sender holds
\* one message.
C11_Witness ==
    /\ senders[impl].kind = "interceptor"
    /\ senders[impl].filtered = 2
    /\ senders[BaseOf(senders, impl)].recorded = 1
    /\ senders[BaseOf(senders, impl)].level.Threshold = Info
    /\ \A t \in SeqThreads : pc[t] = "idle"

\* C12: when the transmission of a twitter or desktop notification sender
\* fails during Send, the failure does not reach the caller: Send returns
\* normally, the error handler has been invoked exactly once, with the error
\* and the message, and the transmission has been attempted once (no
\* retry); when the transmission succeeds or the message is filtered out the
\* error handler is not invoked.
C12_FailureToErrorHandler ==
    [][\A t \in SeqThreads :
          (/\ pc[t] \in {"send", "deliver"}
           /\ pc'[t] # pc[t]
           /\ senders[impl].kind \in {"twitter", "desktop"})
              => LET pass == Accepts(SenderLevel(senders, impl), call[t].msg)
                     old == senders[impl]
                     new == senders'[impl]
                 IN  /\ pc'[t] = (IF pc[t] = "send" THEN "runlock" ELSE "abort")
                     /\ ~call'[t].aborted
                     /\ ~call'[t].err
                     /\ ~exited'
                     /\ new.transmits = old.transmits + (IF pass THEN 1 ELSE 0)
                     /\ IF pass /\ old.sendErr
                        THEN /\ new.errCalls = old.errCalls + 1
                             /\ new.lastErr = <<"sendERROR">>
                             /\ new.errMsg = call'[t].msg
                             /\ new.recorded = old.recorded
                        ELSE /\ new.errCalls = old.errCalls
                             /\ new.lastErr = old.lastErr
                             /\ new.errMsg = old.errMsg
                             /\ new.recorded = old.recorded
                                    + (IF pass THEN 1 ELSE 0)]_vars

\* Two loggable messages have been sent through a twitter sender whose
\* client fails: two transmissions, two error-handler calls, and both calls
\* returned.
C12_Witness ==
    /\ senders[impl].kind = "twitter"
    /\ senders[impl].sendErr
    /\ senders[impl].transmits = 2
    /\ senders[impl].errCalls = 2
    /\ senders[impl].errMsg.body = "text"
    /\ \A t \in SeqThreads : pc[t] = "idle"

C14_SetLevelPartial ==
    \A t \in SeqThreads :
        (pc[t] = "runlock" /\ call[t].op = "SetLevel") =>
            LET now == SenderLevel(senders, impl)
                info == call[t].info
                was == call[t].sl
            IN  /\ now.Default = (IF IsValid(info.Default) THEN info.Default
                                  ELSE was.Default)
                /\ now.Threshold = (IF IsValid(info.Threshold)
                                    THEN info.Threshold ELSE was.Threshold)
                /\ (~IsValid(info.Default) /\ ~IsValid(info.Threshold))
                      => now = was
                /\ ~call[t].err

\* SetLevel with only a Threshold has returned on a sender whose Default an
\* earlier SetLevel had changed: the Default is kept, the Threshold is new.
C14_Witness ==
    \E t \in SeqThreads :
        /\ pc[t] = "runlock"
        /\ call[t].op = "SetLevel"
        /\ call[t].info = LevelInfo(Invalid, Emergency)
        /\ call[t].sl = LevelInfo(Critical, Notice)
        /\ SenderLevel(senders, impl) = LevelInfo(Critical, Emergency)

\* A call that holds the logger's lock, shared or exclusive.
Holding(t) ==
    pc[t] \in {"send", "check", "deliver", "abort", "setname", "level",
               "setlevel", "get", "runlock", "copylevel", "close",
               "install", "unlock"}

WriteOps == {"SetSender", "SetName", "SetLevel"}

\* C15: SetSender, SetName and SetLevel hold the logger's lock exclusively:
\* while one of them holds it, no other call on the logger (a Send, Name or
\* GetSender, or another write) holds it.
C15_WritesExclusive ==
    \A t \in Threads :
        (Holding(t) /\ call[t].op \in WriteOps) =>
            \A u \in Threads \ {t} : ~Holding(u)

\* C16: Logger.Send(value) converts value at the logger's
\* default priority and dispatches it exactly once; for every input the
\* dispatched composer's priority equals the logger's default priority, for
\* MakeGrip and NewGrip loggers alike.
C16_SendAtDefaultEveryInput ==
    \A t \in SeqThreads :
        (pc[t] = "runlock" /\ call[t].op = "Send") =>
            /\ call[t].handed = 1
            /\ Priority(call[t].msg) = defaultLevel

\* C17: when the input of a conversion already is a composer,
\* ConvertToComposer forces its priority to the given (valid) value, and
\* ConvertToComposerWithLevel sets the priority only if the composer's
\* current priority is Invalid and leaves a set priority unchanged; in both
\* cases the composer returned is the input composer (nothing but its
\* priority differs).
C17_PreserveIfSet ==
    [][(~arg.converted /\ arg'.converted /\ arg'.v.type = "composer"
            /\ IsValid(arg'.p)) =>
          /\ [composer' EXCEPT !.level = Priority(arg'.v.m)] = arg'.v.m
          /\ Priority(composer') =
               (IF arg'.overRideLevel \/ Priority(arg'.v.m) = Invalid
                THEN arg'.p
                ELSE Priority(arg'.v.m))]_vars

\* C18: conversion does not invoke function inputs: a logging call given a
\* zero-argument function has a lazy composer whose function was not called
\* when conversion returns; the function is first called at the first
\* resolution, so a logging call whose message is filtered out by priority
\* alone (a function is present, the level is valid and below the sender's
\* threshold) has returned without writing anything and without calling it.
C18_FilteredNeverCalls ==
    \A t \in SeqThreads :
        (/\ call[t].op = "Log"
         /\ call[t].msg.kind \in {"fieldsProducer", "composerProducer",
                                  "errorProducer"}
         /\ call[t].msg.hasFn) =>
            /\ pc[t] = "rlock" => call[t].msg.calls = 0
            /\ (/\ pc[t] = "runlock"
                /\ IsValid(call[t].lvl)
                /\ call[t].lvl < SenderLevel(senders, impl).Threshold) =>
                   /\ call[t].delivered = 0
                   /\ call[t].msg.calls = 0

\* C19: a lazy composer of any of the three variants whose wrapped function
\* is nil resolves to an empty, not-loggable result without invoking
\* anything: String, Raw, Annotate and Loggable return normally (no panic),
\* Loggable returns false, and no function call is counted.
C19_NilFunctionResolvesEmpty ==
    (/\ composer.kind \in {"fieldsProducer", "composerProducer",
                           "errorProducer"}
     /\ ~composer.hasFn) =>
        /\ composer.calls = 0
        /\ ~composer.panicked
        /\ ~returned.panic
        /\ returned.op = "Loggable" => ~returned.bool

\* C20: for every lazy composer, SetPriority with a valid priority before
\* resolution only stores the pending priority and does not invoke the
\* wrapped function; with a valid priority after resolution it also sets the
\* cached composer's priority; with an invalid priority it returns an error
\* and leaves the pending and the cached priority unchanged.  Nothing else
\* of the composer changes in any of the three cases.
C20_SetPriorityLazy ==
    [][(IsLazy(composer) /\ returned'.op = "SetPriority") =>
          \E p \in Priorities :
              /\ returned'.bool = ~IsValid(p)
              /\ composer'.calls = composer.calls
              /\ composer'.resolved = composer.resolved
              /\ [composer' EXCEPT !.level = composer.level,
                                   !.clevel = composer.clevel] = composer
              /\ Priority(composer') =
                    (IF IsValid(p) THEN p ELSE Priority(composer))
              /\ composer'.clevel =
                    (IF IsValid(p) /\ composer.resolved THEN p
                     ELSE composer.clevel)]_vars

\* SetPriority(Alert) has returned without error on a composer producer
\* that was resolved (one call of its function, which returned a composer at
\* Warning): the pending and the cached priority are both Alert.
C20_Witness ==
    /\ composer.kind = "composerProducer"
    /\ composer.fnLevel = Warning
    /\ composer.resolved
    /\ composer.calls = 1
    /\ returned.op = "SetPriority"
    /\ ~returned.bool
    /\ Priority(composer) = Alert
    /\ composer.clevel = Alert

\* The operations of a lazy composer other than String, Raw, Loggable and
\* Annotate.
NonResolving ==
    {"Priority", "SetPriority", "IsStructured", "Cause", "Unwrap", "Error",
     "Format"}

\* C21: a lazy composer moves from unresolved to resolved only through a
\* call of String, Raw, Loggable or Annotate: Priority, SetPriority,
\* IsStructured, Cause, Unwrap, Error and Format neither invoke the wrapped
\* function nor change the resolution state.
C21_OnlyAccessorsResolve ==
    [][(IsLazy(composer) /\ returned'.op \in NonResolving) =>
          /\ composer'.calls = composer.calls
          /\ composer'.resolved = composer.resolved]_vars

\* C22: the logger's sender is never nil: after construction and after any
\* sequence of SetSender (SetSender(nil) and failing SetSender calls
\* included), SetName, SetLevel and logging calls, the logger holds a
\* sender.
C22_SenderNeverNil == impl # Nil

\* C23: annotating and intercepting wrappers are transparent for everything
\* except Send: a wrapper's Name(), Level() and ErrorHandler() always equal
\* the inner sender's; SetName, SetLevel and SetErrorHandler on the wrapper
\* change the inner sender (here: the testing sender at the end of the
\* chain, whose own fields are read); Close on the wrapper closes it.
C23_WrappersTransparent ==
    \A w \in WrapperIds :
        LET c == call[1]
        IN  /\ SenderName(senders, w) = SenderName(senders, senders[w].inner)
            /\ SenderLevel(senders, w) = SenderLevel(senders, senders[w].inner)
            /\ SenderErrorHandler(senders, w)
                  = SenderErrorHandler(senders, senders[w].inner)
            /\ SenderName(senders, w) = senders[1].name
            /\ SenderLevel(senders, w) = senders[1].level
            /\ SenderErrorHandler(senders, w) = senders[1].handler
            /\ (c.s = w /\ c.op = "SetName") => senders[1].name = c.n
            /\ (c.s = w /\ c.op = "SetLevel") =>
                  /\ c.err = ~LevelInfoValid(c.info)
                  /\ ~c.err => senders[1].level = c.info
            /\ (c.s = w /\ c.op = "SetErrorHandler") =>
                  senders[1].handler = c.n
            /\ (c.s = w /\ c.op = "Close") =>
                  /\ senders[1].closeCalls >= 1
                  /\ c.err = senders[1].closeErr
                  /\ ~c.err => senders[1].closed

\* SetErrorHandler(h) has just been called on the interceptor, after
\* SetName and SetLevel on a wrapper: the testing sender holds all three.
C23_Witness ==
    /\ call[1].op = "SetErrorHandler"
    /\ call[1].s = 3
    /\ senders[1].handler = "h"
    /\ senders[1].name = "n"
    /\ senders[1].level = LevelInfo(Notice, Emergency)
    /\ senders[2].name = ""

\* C24: every backend's Send asks ShouldLog of its own LevelInfo before any
\* backend-specific work: for a message that the level rejects, the
\* twitter, desktop notification and testing senders transmit nothing,
\* write nothing, call no error handler and do not render the message (the
\* composer is left as ShouldLog left it), also when Send is reached
\* through an interceptor, which does not filter.
C24_BackendsRecheck ==
    [][\A t \in SeqThreads :
          (/\ pc[t] = "send"
           /\ pc'[t] # pc[t]
           /\ ~Accepts(SenderLevel(senders, impl), call[t].msg))
              => LET b == BaseOf(senders, impl)
                     old == senders[b]
                     new == senders'[b]
                 IN  /\ call'[t].handed = call[t].handed + 1
                     /\ new.transmits = old.transmits
                     /\ new.alerts = old.alerts
                     /\ new.recorded = old.recorded
                     /\ new.errCalls = old.errCalls
                     /\ call'[t].delivered = call[t].delivered
                     /\ call'[t].msg = ShouldLogEff(old.level, call[t].msg)]_vars

\* LogWhen(false, Emergency, f) with a fields function f has returned from a
\* desktop notification sender whose notifications fail: the message was
\* handed over, f was not called, nothing was transmitted and the error
\* handler was not called.
C24_Witness ==
    \E t \in SeqThreads :
        /\ pc[t] = "runlock"
        /\ call[t].op = "LogWhen"
        /\ call[t].lvl = Emergency
        /\ call[t].msg.kind = "fieldsProducer"
        /\ ~call[t].msg.cond
        /\ call[t].msg.calls = 0
        /\ call[t].handed = 1
        /\ senders[impl].kind = "desktop"
        /\ senders[impl].sendErr
        /\ senders[impl].transmits = 0
        /\ senders[impl].errCalls = 0

\* C25: no operation of the core aborts the caller's control flow except
\* EmergencyPanic and EmergencyFatal: every other call on the logger (its
\* Send on a wrapper included) returns normally, also on an interceptor
\* that was constructed with a nil function, and the process does not exit
\* but in EmergencyFatal.
C25_OnlyNamedAborts ==
    \A t \in SeqThreads :
        /\ call[t].aborted =>
              call[t].op \in {"EmergencyPanic", "EmergencyFatal"}
        /\ exited => call[t].op = "EmergencyFatal"

\* C26: lazy resolution is single-flight per composer: when two threads call
\* String, Raw, Loggable or Annotate on the same unresolved lazy composer,
\* the wrapped function is invoked at most once and both threads read the
\* same cached composer.
C26_SingleFlight ==
    /\ composer.calls <= 1
    /\ \A t, u \in Threads :
          (pc[t] = "ret" /\ pc[u] = "ret") =>
              call[t].msg.calls = call[u].msg.calls

\* C27: configuration errors are returned by the configuring call: a sender
\* constructor (NewTwitterLogger, NewDesktopNotify) given an invalid
\* LevelInfo returns an error and no sender; Logger.SetLevel returns the
\* error of the sender's SetLevel (which refuses an invalid LevelInfo), and
\* so does Logger.SetSender, which then neither closes nor replaces the
\* logger's sender; neither call changes which sender the logger holds when
\* it fails.
C27_ConfigErrorsReturned ==
    [][\A t \in SeqThreads :
          LET c == call[t]
              d == call'[t]
          IN  /\ (/\ pc[t] = "idle"
                  /\ d.op \in {"NewTwitterLogger", "NewDesktopNotify"}
                  /\ ~LevelInfoValid(d.info)) =>
                     (d.err /\ d.gotSender = Nil /\ pc'[t] = "ret")
              /\ (pc[t] = "setlevel" /\ pc'[t] # pc[t]) =>
                    /\ d.err = ~LevelInfoValid(FillLevel(c.info, c.sl))
                    /\ impl' = impl
                    /\ d.err => senders' = senders
                    /\ pc'[t] = "runlock"
              /\ (pc[t] = "copylevel" /\ pc'[t] # pc[t]) =>
                    /\ d.err = ~LevelInfoValid(SenderLevel(senders, impl))
                    /\ impl' = impl
                    /\ d.err => (senders' = senders /\ pc'[t] = "unlock")
              /\ (pc[t] = "unlock" /\ pc'[t] # pc[t] /\ c.err) =>
                    /\ impl' = c.pre.impl
                    /\ impl' = impl]_vars

\* SetSender has failed on a logger whose sender has no valid level: the
\* call holds the error, the logger's sender is the one it had, and it has
\* not been closed.
C27_Witness ==
    \E t \in SeqThreads :
        /\ pc[t] = "unlock"
        /\ call[t].op = "SetSender"
        /\ call[t].err
        /\ ~LevelInfoValid(SenderLevel(senders, impl))
        /\ impl = call[t].pre.impl
        /\ senders[impl].closeCalls = 0

\* C28: the logger's name round trip.  SetName(n) makes n the name of the
\* logger and of its current sender, for every n; Name() returns the
\* current sender's name; no other call of the thread changes the logger's
\* name, in particular not a successful SetSender, whatever name the
\* incoming sender was constructed with.  So Name() returns n after
\* SetName(n), also across SetSender calls.
C28_NameRoundTrip ==
    [][\A t \in SeqThreads :
          LET before == SenderName(senders, impl)
              after == SenderName(senders', impl')
          IN  /\ IF pc[t] = "setname" /\ pc'[t] # pc[t]
                 THEN /\ after = call[t].n
                      /\ senders'[BaseOf(senders, impl)].name = call[t].n
                 ELSE after = before
              /\ (pc[t] = "get" /\ pc'[t] # pc[t] /\ call[t].op = "Name") =>
                    call'[t].gotName = before
              /\ (pc[t] = "install" /\ pc'[t] # pc[t]) =>
                    /\ impl' = call[t].s
                    /\ senders'[impl'].name = before]_vars

\* Name() has answered "n" on a logger that was named "n" and then given the
\* sender constructed as "c".
C28_Witness ==
    \E t \in SeqThreads :
        /\ pc[t] = "runlock"
        /\ call[t].op = "Name"
        /\ call[t].gotName = "n"
        /\ impl = 3
        /\ senders[3].name = "n"

C30_NeverDispatchesToClosed ==
    /\ \A t \in SeqThreads : ~call[t].toClosed
    /\ mu.w = Nil => ~senders[BaseOf(senders, impl)].closed

\* C31: a SetSender that returns an error changes nothing.  When the call
\* is about to unlock with an error (the incoming sender's SetLevel or the
\* outgoing sender's Close has failed), the logger holds the sender it
\* had, that sender is not closed, and the incoming sender has the name and
\* the LevelInfo it was constructed with.
C31_FailedSetSenderChangesNothing ==
    \A t \in SeqThreads :
        (pc[t] = "unlock" /\ call[t].op = "SetSender" /\ call[t].err) =>
            LET s == call[t].s
                made == InitSenders(LevelInfo(Info, Info))[s]
            IN  /\ impl = call[t].pre.impl
                /\ ~senders[BaseOf(senders, impl)].closed
                /\ senders[s].name = made.name
                /\ senders[s].level = made.level

\* C32: concurrent partial level updates do not lose each other.  When one
\* thread has called SetLevel with only Default valid, another with only
\* Threshold valid, and both have made their call on the sender, the sender
\* has the new Default and the new Threshold.
C32_PartialUpdatesKept ==
    \A t, u \in Threads :
        (/\ pc[t] = "runlock" /\ call[t].op = "SetLevel"
         /\ pc[u] = "runlock" /\ call[u].op = "SetLevel"
         /\ IsValid(call[t].info.Default) /\ ~IsValid(call[t].info.Threshold)
         /\ ~IsValid(call[u].info.Default) /\ IsValid(call[u].info.Threshold))
        => SenderLevel(senders, impl) =
               LevelInfo(call[t].info.Default, call[u].info.Threshold)

C34_PanicReleasesLock ==
    \A t \in Threads :
        /\ [](pc[t] \in {"idle", "ret"} => (t \notin mu.readers /\ mu.w # t))
        /\ (pc[t] = "lock") ~> (pc[t] = "unlock")
        /\ (pc[t] = "send") ~> (pc[t] = "runlock" /\ call[t].handed = 1)

\* One thread has recovered from the panic of EmergencyPanic; the other
\* holds the write lock in SetSender and has installed the new sender.
C34_Witness ==
    \E t, u \in Threads :
        /\ pc[t] = "ret"
        /\ call[t].op = "EmergencyPanic"
        /\ call[t].aborted
        /\ pc[u] = "unlock"
        /\ call[u].op = "SetSender"
        /\ ~call[u].err
        /\ mu.w = u
        /\ impl = call[u].s

\* C35: in EmergencyPanic and EmergencyFatal the decision and the delivery
\* use the same sender.  From the ShouldLog check that accepted the message
\* until Send has returned, no step of any thread changes the logger's
\* sender or closes it, under any interleaving with SetSender; the Send
\* step hands the message to that sender, which is open.
C35_DecisionAndDeliverySameSender ==
    [][\A t \in Threads :
          (pc[t] = "deliver" /\ call[t].op \in AbortingOps) =>
              /\ call[t].accepted
              /\ impl' = impl
              /\ ~senders[BaseOf(senders, impl)].closed
              /\ ~senders'[BaseOf(senders', impl')].closed
              /\ senders'[BaseOf(senders, impl)].closeCalls
                     = senders[BaseOf(senders, impl)].closeCalls
              /\ pc'[t] # pc[t] =>
                    /\ call'[t].handed = call[t].handed + 1
                    /\ ~call'[t].toClosed]_vars

\* EmergencyPanic is between its accepted check and its Send while a
\* SetSender of the other thread waits for the write lock.
C35_Witness ==
    \E t, u \in Threads :
        /\ pc[t] = "deliver"
        /\ call[t].op = "EmergencyPanic"
        /\ call[t].accepted
        /\ pc[u] = "wait"
        /\ call[u].op = "SetSender"
        /\ mu.w = u

C37_ResendReportsDuplicates ==
    [][\A t \in SeqThreads :
          (/\ call'[t].op = "Send"
           /\ ncalls' = ncalls + 1
           /\ Accepts(SenderLevel(senders, call'[t].s), composer))
              => LET w == senders[call'[t].s]
                     failing == w.annotations \cap composer.keys
                     err == senders'[1].lastErr
                 IN  /\ composer'.keys = composer.keys \cup w.annotations
                     /\ senders'[1].recorded = senders[1].recorded + 1
                     /\ (senders[1].recorded = 0) <=> (failing = {})
                     /\ IF senders[1].recorded = 0
                        THEN /\ senders'[1].errCalls = 0
                             /\ err = <<>>
                        ELSE /\ senders'[1].errCalls = senders[1].errCalls + 1
                             /\ Len(err) = Cardinality(failing)
                             /\ {err[i] : i \in 1..Len(err)} = failing
                             /\ senders'[1].errMsg = composer']_vars

\* A composer has been sent twice through the wrapper with the key k: two
\* messages written, one error for k.
C37_Witness ==
    \E t \in SeqThreads :
        /\ call[t].op = "Send"
        /\ call[t].s = 2
        /\ composer.keys = {"k"}
        /\ senders[1].recorded = 2
        /\ senders[1].errCalls = 1
        /\ senders[1].lastErr = <<"k">>

\* C38: once a lazy composer is resolved, the priority it reports is the
\* priority of the cached composer that renders it, after any sequence of
\* valid and invalid SetPriority calls before and after resolution, also
\* for a composer producer built without a priority.
C38_ReportedPriorityIsCached ==
    (IsLazy(composer) /\ composer.resolved) =>
        Priority(composer) = composer.clevel

====
